---- MODULE Spec2Model ----
(***************************************************************************)
(* Directory-tree reconstruction and rendering of nanobanana-api-mcp:      *)
(* the plain formatter (services/tree-formatter.ts), the enhanced          *)
(* formatter (services/enhanced-tree-formatter.ts) and normalizePath       *)
(* (utils/path-utils.ts).                                                  *)
(*                                                                         *)
(* JavaScript strings are TLA+ strings; an optional value (size?,          *)
(* maxDepth?, showStats?, ...) is a sequence of length at most one:        *)
(* None for undefined, Some(v) for a value.  The box-drawing glyphs and    *)
(* the summary emoji are written with ASCII stand-ins.                     *)
(***************************************************************************)
EXTENDS Integers, Sequences, FiniteSets, TLC

None == <<>>

Some(v) == <<v>>

IsSome(o) == Len(o) = 1

Get(o) == o[1]

(***************************************************************************)
(* String primitives of the JavaScript runtime.                            *)
(***************************************************************************)
CharAt(s, k) == SubSeq(s, k, k)

StartsWith(s, p) == Len(p) <= Len(s) /\ SubSeq(s, 1, Len(p)) = p

EndsWith(s, e) == Len(e) <= Len(s) /\ SubSeq(s, Len(s) - Len(e) + 1, Len(s)) = e

\* s.substring(k): the characters from 0-based index k to the end
Substring(s, k) == SubSeq(s, k + 1, Len(s))

\* s.split(sep) for a one-character separator: the pieces between the
\* occurrences of sep, in order (one more piece than there are occurrences)
Split(s, sep) ==
    LET seps == {k \in 1..Len(s) : CharAt(s, k) = sep}
        n == Cardinality(seps)
        at(j) == IF j = 0 THEN 0
                 ELSE IF j = n + 1 THEN Len(s) + 1
                 ELSE CHOOSE k \in seps : Cardinality({m \in seps : m < k}) = j - 1
    IN  [j \in 1..(n + 1) |-> SubSeq(s, at(j - 1) + 1, at(j) - 1)]

RECURSIVE Join(_, _)
Join(parts, sep) ==
    IF Len(parts) = 0 THEN ""
    ELSE IF Len(parts) = 1 THEN parts[1]
    ELSE parts[1] \o sep \o Join(Tail(parts), sep)

Digit == <<"0", "1", "2", "3", "4", "5", "6", "7", "8", "9">>

RECURSIVE NumToString(_)
\* the template literal of a non-negative integer n: its decimal digits
NumToString(n) ==
    IF n < 10 THEN Digit[n + 1]
    ELSE NumToString(n \div 10) \o Digit[(n % 10) + 1]

\* Rank of a character in the collation used by String.prototype.localeCompare
\* (punctuation, then digits, then letters; case is a lower-level difference)
CollationOrder == "_-.0123456789abcdefghijklmnopqrstuvwxyz"

UpperCase == "ABCDEFGHIJKLMNOPQRSTUVWXYZ"

LowerCase == "abcdefghijklmnopqrstuvwxyz"

Letters == {CharAt(UpperCase, k) : k \in 1..Len(UpperCase)}

\* the primary collation rank of each character, an upper-case letter having
\* the rank of its lower-case form; 0 for any other character
CharRank ==
    [c \in {CharAt(CollationOrder, k) : k \in 1..Len(CollationOrder)} \cup Letters |->
        IF c \in Letters
        THEN CHOOSE r \in 1..Len(CollationOrder) :
                \E k \in 1..Len(UpperCase) :
                    CharAt(UpperCase, k) = c /\ CharAt(CollationOrder, r) = CharAt(LowerCase, k)
        ELSE CHOOSE r \in 1..Len(CollationOrder) : CharAt(CollationOrder, r) = c]

IsUpper(c) == c \in Letters

PrimaryRank(c) == IF c \in DOMAIN CharRank THEN CharRank[c] ELSE 0

RECURSIVE PrimaryCompare(_, _)
PrimaryCompare(a, b) ==
    IF a = "" /\ b = "" THEN 0
    ELSE IF a = "" THEN -1
    ELSE IF b = "" THEN 1
    ELSE IF PrimaryRank(Head(a)) < PrimaryRank(Head(b)) THEN -1
    ELSE IF PrimaryRank(Head(a)) > PrimaryRank(Head(b)) THEN 1
    ELSE PrimaryCompare(Tail(a), Tail(b))

RECURSIVE CaseCompare(_, _)
\* tertiary difference of two strings with equal primary keys: at the first
\* position that differs in case, lower case sorts first
CaseCompare(a, b) ==
    IF a = "" \/ b = "" THEN 0
    ELSE IF IsUpper(Head(a)) = IsUpper(Head(b)) THEN CaseCompare(Tail(a), Tail(b))
    ELSE IF IsUpper(Head(b)) THEN -1
    ELSE 1

\* a.localeCompare(b): negative, zero or positive
LocaleCompare(a, b) ==
    IF PrimaryCompare(a, b) # 0 THEN PrimaryCompare(a, b) ELSE CaseCompare(a, b)

(***************************************************************************)
(* utils/path-utils.ts                                                     *)
(***************************************************************************)
RECURSIVE BackslashesToSlashes(_)
BackslashesToSlashes(s) ==
    IF s = "" THEN ""
    ELSE (IF Head(s) = "\\" THEN "/" ELSE Head(s)) \o BackslashesToSlashes(Tail(s))

RECURSIVE StripLeadingSlashes(_)
StripLeadingSlashes(s) ==
    IF s # "" /\ Head(s) = "/" THEN StripLeadingSlashes(Tail(s)) ELSE s

RECURSIVE StripTrailingSlashes(_)
StripTrailingSlashes(s) ==
    IF s # "" /\ CharAt(s, Len(s)) = "/"
    THEN StripTrailingSlashes(SubSeq(s, 1, Len(s) - 1))
    ELSE s

RECURSIVE CollapseSlashes(_)
CollapseSlashes(s) ==
    IF Len(s) < 2 THEN s
    ELSE IF Head(s) = "/" /\ CharAt(s, 2) = "/" THEN CollapseSlashes(Tail(s))
    ELSE Head(s) \o CollapseSlashes(Tail(s))

\* normalizePath without its last replace
normalizePathNoCollapse(path) ==
    StripTrailingSlashes(StripLeadingSlashes(BackslashesToSlashes(path)))

normalizePath(path) ==
    CollapseSlashes(StripTrailingSlashes(StripLeadingSlashes(BackslashesToSlashes(path))))

(***************************************************************************)
(* services/enhanced-tree-formatter.ts: formatSize                         *)
(***************************************************************************)
KB == 1024

MB == 1024 * 1024

GB == 1024 * 1024 * 1024

RECURSIVE TimesDiv(_, _, _, _, _)
\* floor(k * r / d) for 0 <= r < d, by k additions of r that never exceed 2 * d
TimesDiv(k, r, d, q, rem) ==
    IF k = 0 THEN q
    ELSE IF rem + r >= d THEN TimesDiv(k - 1, r, d, q + 1, rem + r - d)
    ELSE TimesDiv(k - 1, r, d, q, rem + r)

\* the number of tenths nearest to bytes / unit, a tie going up, as
\* Number.prototype.toFixed(1) picks it (bytes / unit is exact in a double
\* because unit is a power of two)
Tenths(bytes, unit) ==
    10 * (bytes \div unit) + ((TimesDiv(20, bytes % unit, unit, 0, 0) + 1) \div 2)

\* (bytes / unit).toFixed(1)
toFixed1(bytes, unit) ==
    NumToString(Tenths(bytes, unit) \div 10) \o "." \o Digit[(Tenths(bytes, unit) % 10) + 1]

formatSizeUnitBug(bytes) ==
    IF bytes = 0 THEN "0B"
    ELSE IF bytes <= KB THEN NumToString(bytes) \o "B"
    ELSE IF bytes < MB THEN toFixed1(bytes, KB) \o "KB"
    ELSE IF bytes < GB THEN toFixed1(bytes, MB) \o "MB"
    ELSE toFixed1(bytes, GB) \o "GB"

formatSize(bytes) ==
    IF bytes = 0 THEN "0B"
    ELSE IF bytes < KB THEN NumToString(bytes) \o "B"
    ELSE IF bytes < MB THEN toFixed1(bytes, KB) \o "KB"
    ELSE IF bytes < GB THEN toFixed1(bytes, MB) \o "MB"
    ELSE toFixed1(bytes, GB) \o "GB"

\* matchesExtFilter with every in place of some
matchesExtFilterEvery(fileName, extFilter) ==
    IF ~IsSome(extFilter) \/ Len(Get(extFilter)) = 0 THEN TRUE
    ELSE \A k \in 1..Len(Get(extFilter)) : EndsWith(fileName, Get(extFilter)[k])

\* matchesExtFilter(fileName, extFilter)
matchesExtFilter(fileName, extFilter) ==
    IF ~IsSome(extFilter) \/ Len(Get(extFilter)) = 0 THEN TRUE
    ELSE \E k \in 1..Len(Get(extFilter)) : EndsWith(fileName, Get(extFilter)[k])

\* a lookup that never finds a node
FindNever(nodes, name) == 0

\* index of the first element of nodes named name, 0 if there is none
\* (Array.prototype.find, Map.prototype.has / get)
FindByName(nodes, name) ==
    IF \E k \in 1..Len(nodes) : nodes[k].name = name
    THEN CHOOSE k \in 1..Len(nodes) :
            /\ nodes[k].name = name
            /\ \A j \in 1..(k - 1) : nodes[j].name # name
    ELSE 0

\* the filter with startsWith(normalizedDirPath) in place of
\* startsWith(normalizedDirPath + '/')
filterItemsByPrefix(items, normalizedDirPath) ==
    SelectSeq(items, LAMBDA item :
        IF normalizedDirPath = "" THEN TRUE
        ELSE StartsWith(item.path, normalizedDirPath) \/ item.path = normalizedDirPath)

\* the filter of lines 53-56 / 18-21: the items under the directory path
filterItems(items, normalizedDirPath) ==
    SelectSeq(items, LAMBDA item :
        IF normalizedDirPath = "" THEN TRUE
        ELSE StartsWith(item.path, normalizedDirPath \o "/") \/ item.path = normalizedDirPath)

(***************************************************************************)
(* services/enhanced-tree-formatter.ts: tree construction                  *)
(***************************************************************************)
\* Directories first, then files; names by localeCompare
enhancedCompare(a, b) ==
    IF a.isDirectory # b.isDirectory
    THEN (IF a.isDirectory THEN -1 ELSE 1)
    ELSE LocaleCompare(a.name, b.name)

\* children.sort(...) of lines 103-109 and 154-159. Array.prototype.sort is
\* stable: the element at index k moves behind exactly the elements that
\* compare smaller, or equal with a smaller index.
\* children left in insertion order
sortEnhancedKeepOrder(s) == s

sortEnhanced(s) ==
    LET before(j, k) == \/ enhancedCompare(s[j], s[k]) < 0
                        \/ (enhancedCompare(s[j], s[k]) = 0 /\ j < k)
    IN  [pos \in 1..Len(s) |->
            s[CHOOSE k \in 1..Len(s) : 1 + Cardinality({j \in 1..Len(s) : before(j, k)}) = pos]]

\* a node created with depth 1 wherever it is
newEnhancedNodeAtDepthOne(childName, parts, item, depth) ==
    LET isDirectory == Len(parts) > 1 \/ item.type = "tree"
    IN  [name |-> childName,
         isDirectory |-> isDirectory,
         size |-> IF isDirectory THEN None ELSE item.size,
         children |-> <<>>,
         depth |-> 1]

newEnhancedNode(childName, parts, item, depth) ==
    LET isDirectory == Len(parts) > 1 \/ item.type = "tree"
    IN  [name |-> childName,
         isDirectory |-> isDirectory,
         size |-> IF isDirectory THEN None ELSE item.size,
         children |-> <<>>,
         depth |-> depth]

RECURSIVE addNestedEnhancedNode(_, _, _, _, _)
\* the parent node after addNestedEnhancedNode(parent, path, item, depth, options)
addNestedEnhancedNode(parent, path, item, depth, options) ==
    LET parts == Split(path, "/")
        childName == parts[1]
        found == FindByName(parent.children, childName)
        pushed == IF found = 0
                  THEN Append(parent.children, newEnhancedNode(childName, parts, item, depth))
                  ELSE parent.children
        idx == IF found = 0 THEN Len(pushed) ELSE found
        nested == IF Len(parts) > 1
                  THEN [pushed EXCEPT ![idx] =
                          addNestedEnhancedNode([pushed[idx] EXCEPT !.isDirectory = TRUE],
                                                Join(Tail(parts), "/"), item, depth + 1, options)]
                  ELSE pushed
    IN  IF Len(parts) = 1 /\ item.type = "blob" /\ ~matchesExtFilter(childName, options.fileExtFilter)
        THEN parent
        ELSE [parent EXCEPT !.children = sortEnhanced(nested)]

\* one iteration of the loop of buildEnhancedTree (lines 61-101): childrenMap,
\* the Map's values in insertion order, after the item has been processed
enhancedInsert(childrenMap, item, normalizedDirPath, options) ==
    LET relativePath == IF normalizedDirPath # ""
                        THEN Substring(item.path, Len(normalizedDirPath) + 1)
                        ELSE item.path
        parts == Split(relativePath, "/")
        childName == parts[1]
        found == FindByName(childrenMap, childName)
        withChild == IF found = 0
                     THEN Append(childrenMap, newEnhancedNode(childName, parts, item, 1))
                     ELSE childrenMap
        idx == IF found = 0 THEN Len(withChild) ELSE found
    IN  IF normalizedDirPath # "" /\ item.path = normalizedDirPath THEN childrenMap
        ELSE IF Len(parts) = 1 /\ item.type = "blob"
                /\ ~matchesExtFilter(parts[1], options.fileExtFilter) THEN childrenMap
        ELSE IF Len(parts) > 1
        THEN [withChild EXCEPT ![idx] =
                addNestedEnhancedNode([withChild[idx] EXCEPT !.isDirectory = TRUE],
                                      Join(Tail(parts), "/"), item, 2, options)]
        ELSE withChild

RECURSIVE enhancedLoop(_, _, _, _)
enhancedLoop(filteredItems, childrenMap, normalizedDirPath, options) ==
    IF Len(filteredItems) = 0 THEN childrenMap
    ELSE enhancedLoop(Tail(filteredItems),
                      enhancedInsert(childrenMap, Head(filteredItems), normalizedDirPath, options),
                      normalizedDirPath, options)

buildEnhancedTree(items, dirPath, options) ==
    LET normalizedDirPath == normalizePath(dirPath)
        childrenMap == enhancedLoop(filterItems(items, normalizedDirPath), <<>>,
                                    normalizedDirPath, options)
    IN  [name |-> "", isDirectory |-> TRUE, size |-> None,
         children |-> sortEnhanced(childrenMap), depth |-> 0]

(***************************************************************************)
(* services/enhanced-tree-formatter.ts: statistics                         *)
(***************************************************************************)
\* options.maxDepth ?? Infinity is kept as the optional itself: None is Infinity
\* child.depth >= maxDepth in place of child.depth > maxDepth
DepthGreaterOrEqual(depth, maxDepth) == IsSome(maxDepth) /\ depth >= Get(maxDepth)

DepthGreater(depth, maxDepth) == IsSome(maxDepth) /\ depth > Get(maxDepth)

DepthLess(depth, maxDepth) == ~IsSome(maxDepth) \/ depth < Get(maxDepth)

\* an absent size counted as one byte
SizeOrOne(size) == IF IsSome(size) THEN Get(size) ELSE 1

SizeOrZero(size) == IF IsSome(size) THEN Get(size) ELSE 0

RECURSIVE calculateStatsFrom(_, _, _, _)
RECURSIVE calculateStats(_, _, _)
\* the loop of calculateStats (lines 172-182) from child k on
calculateStatsFrom(node, options, stats, k) ==
    IF k > Len(node.children) THEN stats
    ELSE LET child == node.children[k]
         IN  IF DepthGreater(child.depth, options.maxDepth)
             THEN calculateStatsFrom(node, options, stats, k + 1)
             ELSE IF child.isDirectory
             THEN calculateStatsFrom(node, options,
                     calculateStats(child, options,
                                    [stats EXCEPT !.totalDirs = stats.totalDirs + 1]),
                     k + 1)
             ELSE calculateStatsFrom(node, options,
                     [stats EXCEPT !.totalFiles = stats.totalFiles + 1,
                                   !.totalSize = stats.totalSize + SizeOrZero(child.size)],
                     k + 1)

\* statistics that count the nodes at every depth
calculateStatsUnbounded(node, options, stats) ==
    LET counted == calculateStatsFrom(node, [options EXCEPT !.maxDepth = None], stats, 1)
        withFilter == IF IsSome(options.fileExtFilter) /\ Len(Get(options.fileExtFilter)) > 0
                      THEN [counted EXCEPT !.filteredExtensions = options.fileExtFilter]
                      ELSE counted
    IN  IF IsSome(options.maxDepth)
        THEN [withFilter EXCEPT !.depthLimited = options.maxDepth]
        ELSE withFilter

calculateStats(node, options, stats) ==
    LET counted == calculateStatsFrom(node, options, stats, 1)
        withFilter == IF IsSome(options.fileExtFilter) /\ Len(Get(options.fileExtFilter)) > 0
                      THEN [counted EXCEPT !.filteredExtensions = options.fileExtFilter]
                      ELSE counted
    IN  IF IsSome(options.maxDepth)
        THEN [withFilter EXCEPT !.depthLimited = options.maxDepth]
        ELSE withFilter

\* the default value of the stats parameter of calculateStats
InitialStats ==
    [totalFiles |-> 0, totalDirs |-> 0, totalSize |-> 0,
     filteredExtensions |-> None, depthLimited |-> None]

RECURSIVE calculateDirSizeFrom(_, _, _)
calculateDirSizeFrom(node, maxDepth, k) ==
    IF k > Len(node.children) THEN 0
    ELSE LET child == node.children[k]
         IN  (IF DepthGreater(child.depth, maxDepth) THEN 0
              ELSE IF child.isDirectory THEN calculateDirSizeFrom(child, maxDepth, 1)
              ELSE SizeOrZero(child.size))
             + calculateDirSizeFrom(node, maxDepth, k + 1)

\* calculateDirSize assigning where it should add: the last child's share only
calculateDirSizeLast(node, maxDepth) ==
    IF Len(node.children) = 0 THEN 0
    ELSE LET child == node.children[Len(node.children)]
         IN  IF DepthGreater(child.depth, maxDepth) THEN 0
             ELSE IF child.isDirectory THEN calculateDirSizeFrom(child, maxDepth, 1)
             ELSE SizeOrZero(child.size)

calculateDirSize(node, maxDepth) == calculateDirSizeFrom(node, maxDepth, 1)

RECURSIVE countDirFilesFrom(_, _, _)
countDirFilesFrom(node, maxDepth, k) ==
    IF k > Len(node.children) THEN 0
    ELSE LET child == node.children[k]
         IN  (IF DepthGreater(child.depth, maxDepth) THEN 0
              ELSE IF child.isDirectory THEN countDirFilesFrom(child, maxDepth, 1)
              ELSE 1)
             + countDirFilesFrom(node, maxDepth, k + 1)

\* countDirFiles without the depth test of line 221
countDirFilesUnbounded(node, maxDepth) == countDirFilesFrom(node, None, 1)

countDirFiles(node, maxDepth) == countDirFilesFrom(node, maxDepth, 1)

(***************************************************************************)
(* services/enhanced-tree-formatter.ts: rendering                          *)
(***************************************************************************)
ConnectorLast == "+-- "

ConnectorMiddle == "|-- "

PrefixLast == "    "

PrefixMiddle == "|   "

SummaryLabel == "# Summary: "

EmptyDirectory == "(empty directory)"

\* the directory annotation of lines 257-261 and 339-343
dirAnnotation(child, maxDepth) ==
    LET dirSize == calculateDirSize(child, maxDepth)
        fileCount == countDirFiles(child, maxDepth)
    IN  IF fileCount > 0
        THEN " (" \o NumToString(fileCount) \o " "
             \o (IF fileCount = 1 THEN "file" ELSE "files") \o ", "
             \o formatSize(dirSize) \o ")"
        ELSE ""

\* displayName of formatEnhancedNode with child.size ?? 0 in place of the
\* test child.size !== undefined
nestedDisplayNameZero(child, options, maxDepth) ==
    (IF child.isDirectory THEN child.name \o "/" ELSE child.name)
    \o (IF options.showSize = Some(TRUE)
        THEN IF child.isDirectory THEN dirAnnotation(child, maxDepth)
             ELSE " (" \o formatSize(SizeOrZero(child.size)) \o ")"
        ELSE "")

\* displayName of formatEnhancedNode (lines 252-265)
nestedDisplayName(child, options, maxDepth) ==
    (IF child.isDirectory THEN child.name \o "/" ELSE child.name)
    \o (IF options.showSize = Some(TRUE)
        THEN IF child.isDirectory THEN dirAnnotation(child, maxDepth)
             ELSE IF IsSome(child.size) THEN " (" \o formatSize(Get(child.size)) \o ")"
             ELSE ""
        ELSE "")

RECURSIVE formatEnhancedLines(_, _, _, _, _)
RECURSIVE formatEnhancedNode(_, _, _, _)
\* the array lines of formatEnhancedNode as the loop fills it from child k on
formatEnhancedLines(node, prefix, options, maxDepth, k) ==
    IF k > Len(node.children) THEN <<>>
    ELSE LET child == node.children[k]
             isLastChild == k = Len(node.children)
             connector == IF isLastChild THEN ConnectorLast ELSE ConnectorMiddle
             childPrefix == IF isLastChild THEN PrefixLast ELSE PrefixMiddle
             childFormatted == formatEnhancedNode(child, prefix \o childPrefix, options, maxDepth)
         IN  IF DepthGreater(child.depth, maxDepth)
             THEN formatEnhancedLines(node, prefix, options, maxDepth, k + 1)
             ELSE <<prefix \o connector \o nestedDisplayName(child, options, maxDepth)>>
                  \o (IF Len(child.children) > 0 /\ DepthLess(child.depth, maxDepth)
                         /\ childFormatted # ""
                      THEN <<childFormatted>> ELSE <<>>)
                  \o formatEnhancedLines(node, prefix, options, maxDepth, k + 1)

formatEnhancedNode(node, prefix, options, maxDepth) ==
    Join(formatEnhancedLines(node, prefix, options, maxDepth, 1), "\n")

\* formatStats choosing the singular for every count below two
formatStatsPlural(stats) ==
    LET parts == <<SummaryLabel \o NumToString(stats.totalDirs) \o " "
                     \o (IF stats.totalDirs <= 1 THEN "directory" ELSE "directories"),
                   NumToString(stats.totalFiles) \o " "
                     \o (IF stats.totalFiles <= 1 THEN "file" ELSE "files")>>
                 \o (IF stats.totalSize > 0
                     THEN <<formatSize(stats.totalSize) \o " total">> ELSE <<>>)
                 \o (IF IsSome(stats.filteredExtensions) /\ Len(Get(stats.filteredExtensions)) > 0
                     THEN <<"(filtered: " \o Join(Get(stats.filteredExtensions), ", ") \o ")">>
                     ELSE <<>>)
                 \o (IF IsSome(stats.depthLimited)
                     THEN <<"(depth limited to " \o NumToString(Get(stats.depthLimited)) \o ")">>
                     ELSE <<>>)
    IN  Join(parts, ", ")

formatStats(stats) ==
    LET parts == <<SummaryLabel \o NumToString(stats.totalDirs) \o " "
                     \o (IF stats.totalDirs = 1 THEN "directory" ELSE "directories"),
                   NumToString(stats.totalFiles) \o " "
                     \o (IF stats.totalFiles = 1 THEN "file" ELSE "files")>>
                 \o (IF stats.totalSize > 0
                     THEN <<formatSize(stats.totalSize) \o " total">> ELSE <<>>)
                 \o (IF IsSome(stats.filteredExtensions) /\ Len(Get(stats.filteredExtensions)) > 0
                     THEN <<"(filtered: " \o Join(Get(stats.filteredExtensions), ", ") \o ")">>
                     ELSE <<>>)
                 \o (IF IsSome(stats.depthLimited)
                     THEN <<"(depth limited to " \o NumToString(Get(stats.depthLimited)) \o ")">>
                     ELSE <<>>)
    IN  Join(parts, ", ")

\* displayName of the root-level loop of formatSubTree (lines 334-347)
rootDisplayName(child, options, maxDepth) ==
    (IF child.isDirectory THEN child.name \o "/" ELSE child.name)
    \o (IF options.showSize = Some(TRUE)
        THEN IF child.isDirectory THEN dirAnnotation(child, maxDepth)
             ELSE IF IsSome(child.size) THEN " (" \o formatSize(Get(child.size)) \o ")"
             ELSE ""
        ELSE "")

RECURSIVE formatRootLines(_, _, _, _)
\* the array lines of formatSubTree as the root-level loop fills it (lines 331-358)
formatRootLines(tree, options, maxDepth, k) ==
    IF k > Len(tree.children) THEN <<>>
    ELSE LET child == tree.children[k]
             childFormatted == formatEnhancedNode(child, "", options, maxDepth)
         IN  <<rootDisplayName(child, options, maxDepth)>>
             \o (IF Len(child.children) > 0 /\ DepthLess(child.depth, maxDepth)
                    /\ childFormatted # ""
                 THEN <<childFormatted>> ELSE <<>>)
             \o formatRootLines(tree, options, maxDepth, k + 1)

\* the body and the summary of formatSubTree for a tree that has children
renderSubTree(tree, options) ==
    LET maxDepth == options.maxDepth
        result == Join(formatRootLines(tree, options, maxDepth, 1), "\n")
    IN  IF options.showStats # Some(FALSE)
        THEN result \o "\n\n" \o formatStats(calculateStats(tree, options, InitialStats))
        ELSE result

\* the local tree before buildEnhancedTree / buildTree has been called
NoTree == [name |-> "", isDirectory |-> TRUE, children |-> <<>>]

\* formatSubTree without the test of lines 323-325: a tree without children
\* is rendered like any other
formatSubTreeRunNoEmptyTest(items, dirPath, options) ==
    IF Len(items) = 0 THEN [tree |-> NoTree, result |-> EmptyDirectory]
    ELSE LET tree == buildEnhancedTree(items, dirPath, options)
         IN  [tree |-> tree, result |-> renderSubTree(tree, options)]

\* formatSubTree(treeResponse, dirPath, options): the tree it built, NoTree
\* when it returns before building one, and the string it returns
formatSubTreeRun(items, dirPath, options) ==
    IF Len(items) = 0 THEN [tree |-> NoTree, result |-> EmptyDirectory]
    ELSE LET tree == buildEnhancedTree(items, dirPath, options)
         IN  [tree |-> tree,
              result |-> IF Len(tree.children) = 0 THEN EmptyDirectory
                         ELSE renderSubTree(tree, options)]

formatSubTree(items, dirPath, options) == formatSubTreeRun(items, dirPath, options).result

(***************************************************************************)
(* services/tree-formatter.ts: the plain formatter                         *)
(***************************************************************************)
\* the comparator with the two groups exchanged
plainCompareDirectoriesFirst(a, b) ==
    IF a.isDirectory # b.isDirectory
    THEN (IF a.isDirectory THEN -1 ELSE 1)
    ELSE LocaleCompare(a.name, b.name)

\* Files first, then directories; names by localeCompare
plainCompare(a, b) ==
    IF a.isDirectory # b.isDirectory
    THEN (IF a.isDirectory THEN 1 ELSE -1)
    ELSE LocaleCompare(a.name, b.name)

\* children.sort(...) of lines 59-65 and 93-99
sortPlain(s) ==
    LET before(j, k) == \/ plainCompare(s[j], s[k]) < 0
                        \/ (plainCompare(s[j], s[k]) = 0 /\ j < k)
    IN  [pos \in 1..Len(s) |->
            s[CHOOSE k \in 1..Len(s) : 1 + Cardinality({j \in 1..Len(s) : before(j, k)}) = pos]]

RECURSIVE addNestedNode(_, _, _)
\* addNestedNode without the assignment child.isDirectory = true of line 89
addNestedNodeNoPromotion(parent, path, isTree) ==
    LET parts == Split(path, "/")
        childName == parts[1]
        found == FindByName(parent.children, childName)
        pushed == IF found = 0
                  THEN Append(parent.children,
                              [name |-> childName,
                               isDirectory |-> Len(parts) > 1 \/ isTree,
                               children |-> <<>>])
                  ELSE parent.children
        idx == IF found = 0 THEN Len(pushed) ELSE found
        nested == IF Len(parts) > 1
                  THEN [pushed EXCEPT ![idx] =
                          addNestedNode(pushed[idx], Join(Tail(parts), "/"), isTree)]
                  ELSE pushed
    IN  [parent EXCEPT !.children = sortPlain(nested)]

\* the parent node after addNestedNode(parent, path, isTree)
addNestedNode(parent, path, isTree) ==
    LET parts == Split(path, "/")
        childName == parts[1]
        found == FindByName(parent.children, childName)
        pushed == IF found = 0
                  THEN Append(parent.children,
                              [name |-> childName,
                               isDirectory |-> Len(parts) > 1 \/ isTree,
                               children |-> <<>>])
                  ELSE parent.children
        idx == IF found = 0 THEN Len(pushed) ELSE found
        nested == IF Len(parts) > 1
                  THEN [pushed EXCEPT ![idx] =
                          addNestedNode([pushed[idx] EXCEPT !.isDirectory = TRUE],
                                        Join(Tail(parts), "/"), isTree)]
                  ELSE pushed
    IN  [parent EXCEPT !.children = sortPlain(nested)]

\* one iteration of the loop of buildTree (lines 26-57)
plainInsert(childrenMap, item, normalizedDirPath) ==
    LET relativePath == IF normalizedDirPath # ""
                        THEN Substring(item.path, Len(normalizedDirPath) + 1)
                        ELSE item.path
        parts == Split(relativePath, "/")
        childName == parts[1]
        found == FindByName(childrenMap, childName)
        withChild == IF found = 0
                     THEN Append(childrenMap,
                                 [name |-> childName,
                                  isDirectory |-> Len(parts) > 1 \/ item.type = "tree",
                                  children |-> <<>>])
                     ELSE childrenMap
        idx == IF found = 0 THEN Len(withChild) ELSE found
    IN  IF normalizedDirPath # "" /\ item.path = normalizedDirPath THEN childrenMap
        ELSE IF Len(parts) > 1
        THEN [withChild EXCEPT ![idx] =
                addNestedNode([withChild[idx] EXCEPT !.isDirectory = TRUE],
                              Join(Tail(parts), "/"), item.type = "tree")]
        ELSE withChild

RECURSIVE plainLoop(_, _, _)
plainLoop(filteredItems, childrenMap, normalizedDirPath) ==
    IF Len(filteredItems) = 0 THEN childrenMap
    ELSE plainLoop(Tail(filteredItems),
                   plainInsert(childrenMap, Head(filteredItems), normalizedDirPath),
                   normalizedDirPath)

buildTree(items, dirPath) ==
    LET normalizedDirPath == normalizePath(dirPath)
        childrenMap == plainLoop(filterItems(items, normalizedDirPath), <<>>, normalizedDirPath)
    IN  [name |-> "", isDirectory |-> TRUE,
         children |-> sortPlain(childrenMap)]

RECURSIVE formatNodeLines(_, _, _)
RECURSIVE formatNode(_, _)
\* the array lines of formatNode as the loop fills it from child k on
formatNodeLines(node, prefix, k) ==
    IF k > Len(node.children) THEN <<>>
    ELSE LET child == node.children[k]
             isLastChild == k = Len(node.children)
             connector == IF isLastChild THEN ConnectorLast ELSE ConnectorMiddle
             childPrefix == IF isLastChild THEN PrefixLast ELSE PrefixMiddle
             displayName == IF child.isDirectory THEN child.name \o "/" ELSE child.name
         IN  <<prefix \o connector \o displayName>>
             \o (IF Len(child.children) > 0
                 THEN <<formatNode(child, prefix \o childPrefix)>> ELSE <<>>)
             \o formatNodeLines(node, prefix, k + 1)

\* formatNode handing its own prefix down in place of prefix + childPrefix
formatNodeFlat(node, prefix) ==
    Join([k \in 1..Len(node.children) |->
            LET child == node.children[k]
                line == prefix
                        \o (IF k = Len(node.children) THEN ConnectorLast ELSE ConnectorMiddle)
                        \o (IF child.isDirectory THEN child.name \o "/" ELSE child.name)
            IN  IF Len(child.children) > 0
                THEN line \o "\n" \o formatNode(child, prefix) ELSE line], "\n")

formatNode(node, prefix) == Join(formatNodeLines(node, prefix, 1), "\n")

RECURSIVE formatTreeLines(_, _)
\* the array lines of formatTree as the root-level loop fills it (lines 145-156)
formatTreeLines(tree, k) ==
    IF k > Len(tree.children) THEN <<>>
    ELSE LET child == tree.children[k]
             displayName == IF child.isDirectory THEN child.name \o "/" ELSE child.name
         IN  <<displayName>>
             \o (IF Len(child.children) > 0 THEN <<formatNode(child, "")>> ELSE <<>>)
             \o formatTreeLines(tree, k + 1)

\* formatTree(treeResponse, dirPath): the tree it built, NoTree when it
\* returns before building one, and the string it returns
formatTreeRun(items, dirPath) ==
    IF Len(items) = 0 THEN [tree |-> NoTree, result |-> EmptyDirectory]
    ELSE LET tree == buildTree(items, dirPath)
         IN  [tree |-> tree,
              result |-> IF Len(tree.children) = 0 THEN EmptyDirectory
                         ELSE Join(formatTreeLines(tree, 1), "\n")]

formatTree(items, dirPath) == formatTreeRun(items, dirPath).result

(***************************************************************************)
(* config/arguments.ts.  A call ends by returning a value or by throwing   *)
(* an Error with a message.                                                *)
(***************************************************************************)
Return(v) == [kind |-> "return", value |-> v]

Throw(m) == [kind |-> "throw", message |-> m]

InvalidFormatMessage ==
    "Invalid repoIdentifier format. Expected: ownerName/repoName/branchName"

EmptyPartMessage == "Invalid repoIdentifier: owner, repo, and branch must not be empty"

MissingValueMessage == "--repoIdentifier flag requires a value"

\* parseRepoIdentifier without the test of lines 20-24
parseRepoIdentifierNoEmptyTest(identifier) ==
    LET parts == Split(identifier, "/")
    IN  IF Len(parts) # 3 THEN Throw(InvalidFormatMessage)
        ELSE Return([owner |-> parts[1], repo |-> parts[2], branch |-> parts[3]])

parseRepoIdentifier(identifier) ==
    LET parts == Split(identifier, "/")
    IN  IF Len(parts) # 3 THEN Throw(InvalidFormatMessage)
        ELSE IF parts[1] = "" \/ parts[2] = "" \/ parts[3] = "" THEN Throw(EmptyPartMessage)
        ELSE Return([owner |-> parts[1], repo |-> parts[2], branch |-> parts[3]])

\* args.findIndex((arg) => arg === '--repoIdentifier'), 0-based, -1 if none
findRepoIdentifierIndex(argv) ==
    IF \E k \in 1..Len(argv) : argv[k] = "--repoIdentifier"
    THEN (CHOOSE k \in 1..Len(argv) :
            /\ argv[k] = "--repoIdentifier"
            /\ \A j \in 1..(k - 1) : argv[j] # "--repoIdentifier") - 1
    ELSE -1

\* parseArgs reading the value after the last --repoIdentifier
parseArgsLastFlag(argv) ==
    LET flags == {k \in 1..Len(argv) : argv[k] = "--repoIdentifier"}
        last == CHOOSE k \in flags : \A j \in flags : j <= k
    IN  IF flags = {} THEN Return(None)
        ELSE IF last + 1 > Len(argv) \/ argv[last + 1] = "" \/ StartsWith(argv[last + 1], "--")
        THEN Throw(MissingValueMessage)
        ELSE LET parsed == parseRepoIdentifier(argv[last + 1])
             IN  IF parsed.kind = "return" THEN Return(Some(parsed.value)) ELSE parsed

\* parseArgs(args): undefined is None, a RepoIdentifier r is Some(r)
parseArgs(argv) ==
    LET repoIdentifierIndex == findRepoIdentifierIndex(argv)
        \* args[repoIdentifierIndex + 1], undefined beyond the end
        repoIdentifierValue == IF repoIdentifierIndex + 2 <= Len(argv)
                               THEN Some(argv[repoIdentifierIndex + 2]) ELSE None
    IN  IF repoIdentifierIndex = -1 THEN Return(None)
        ELSE IF \/ ~IsSome(repoIdentifierValue)
                \/ Get(repoIdentifierValue) = ""
                \/ StartsWith(Get(repoIdentifierValue), "--")
        THEN Throw(MissingValueMessage)
        ELSE LET parsed == parseRepoIdentifier(Get(repoIdentifierValue))
             IN  IF parsed.kind = "return" THEN Return(Some(parsed.value)) ELSE parsed

(***************************************************************************)
(* server.ts                                                               *)
(***************************************************************************)
DEFAULT_PORT == 5000

\* the largest port that listen accepts; a larger one makes it throw
MaxPort == 65535

maxAttempts == 10

\* the position of the first character of text that is in stops, and
\* Len(text) + 1 if there is none
FirstOf(text, stops) ==
    LET found == {k \in 1..Len(text) : CharAt(text, k) \in stops}
    IN  IF found = {} THEN Len(text) + 1 ELSE CHOOSE k \in found : \A m \in found : k <= m

\* new URL(req.url || "/", "http://localhost").pathname for a request target
\* that begins with "/" and has no dot segments: None when the constructor
\* throws.  A target that begins with "//" names a host, which must not be
\* empty, and the path begins after it.
pathnameOf(url) ==
    LET target == IF url = "" THEN "/" ELSE url
    IN  IF StartsWith(target, "//")
        THEN LET rest == Substring(target, 2)
                 hostEnd == FirstOf(rest, {"/", "?", "#"})
                 path == SubSeq(rest, hostEnd, FirstOf(rest, {"?", "#"}) - 1)
             IN  IF hostEnd = 1 THEN None
                 ELSE Some(IF path = "" THEN "/" ELSE path)
        ELSE Some(SubSeq(target, 1, FirstOf(target, {"?", "#"}) - 1))

(***************************************************************************)
(* services/github-fetcher.ts and the tools that call it                   *)
(***************************************************************************)
\* a template literal's text for an optional string: "undefined" when absent
Interpolated(o) == IF IsSome(o) THEN Get(o) ELSE "undefined"

\* the URL that fetchFileContent requests (lines 22-23)
fileUrl(owner, repo, branch, filePath) ==
    "https://raw.githubusercontent.com/" \o Interpolated(owner) \o "/" \o Interpolated(repo)
        \o "/" \o Interpolated(branch) \o "/" \o normalizePath(filePath)

\* the URL that fetchDirectoryTree requests (line 48)
treeUrl(owner, repo, branch) ==
    "https://api.github.com/repos/" \o Interpolated(owner) \o "/" \o Interpolated(repo)
        \o "/git/trees/" \o Interpolated(branch) \o "?recursive=1"

\* response.ok
ResponseOk(response) == response.status \in 200..299

\* what the promise of fetchFileContent / fetchDirectoryTree settles to when
\* the fetch settled as given regardless of response.ok
fetcherSettledUnchecked(label, fetched) ==
    IF fetched.kind = "reject" THEN Throw(fetched.error) ELSE Return(fetched.body)

\* what the promise of fetchFileContent (label "file", lines 25-31) or of
\* fetchDirectoryTree (label "directory tree", lines 50-58) settles to when
\* the fetch settled as given
fetcherSettled(label, fetched) ==
    IF fetched.kind = "reject" THEN Throw(fetched.error)
    ELSE IF ~ResponseOk(fetched)
    THEN Throw("Failed to fetch " \o label \o ": " \o NumToString(fetched.status)
               \o " " \o fetched.statusText)
    ELSE Return(fetched.body)

\* repoIdentifier?.owner ?? input.ownerName, and the same for repo
resolveOwner(repo, in) == IF IsSome(repo) THEN Some(Get(repo).owner) ELSE in.ownerName

resolveRepo(repo, in) == IF IsSome(repo) THEN Some(Get(repo).repo) ELSE in.repoName

\* the branch taken from the input alone
resolveBranchFromInput(repo, in) ==
    IF IsSome(in.branchName) /\ Get(in.branchName) # "" THEN in.branchName ELSE Some("main")

\* repoIdentifier?.branch ?? (input.branchName || 'main')
resolveBranch(repo, in) ==
    IF IsSome(repo) THEN Some(Get(repo).branch)
    ELSE IF IsSome(in.branchName) /\ Get(in.branchName) # "" THEN in.branchName
    ELSE Some("main")

\* the fetcher method that a tool's handler calls
fetcherMethod(name) == IF name = "fetch-file" THEN "fetchFileContent" ELSE "fetchDirectoryTree"

\* the call that a handler makes to the fetcher
fetcherCall(name, repo, in) ==
    [method |-> fetcherMethod(name),
     owner |-> resolveOwner(repo, in),
     repo |-> resolveRepo(repo, in),
     branch |-> resolveBranch(repo, in),
     path |-> in.path]

\* the URL that the fetcher passes to fetch for a call
fetcherUrl(c) ==
    IF c.method = "fetchFileContent" THEN fileUrl(c.owner, c.repo, c.branch, c.path)
    ELSE treeUrl(c.owner, c.repo, c.branch)

\* the text that a handler returns for what the fetcher resolved to
handlerText(name, in, fetchedValue) ==
    IF name = "fetch-file" THEN fetchedValue
    ELSE IF name = "fetch-subdir-tree" THEN formatTree(fetchedValue, in.path)
    ELSE formatSubTree(fetchedValue, in.path, in.options)

Resolved(text) == [kind |-> "resolved", content |-> <<[type |-> "text", text |-> text]>>]

Rejected(error) == [kind |-> "rejected", error |-> error]

\* what a handler's promise settles to when the fetcher's promise settled
handlerSettled(name, in, settled) ==
    IF settled.kind = "throw" THEN Rejected(settled.message)
    ELSE Resolved(handlerText(name, in, settled.value))

(***************************************************************************)
(* tools/generate-image.ts: edit_image                                     *)
(***************************************************************************)
\* an optional string in a condition: true when present and not empty
Truthy(o) == IsSome(o) /\ Get(o) # ""

\* a || b for optional strings
OrElse(a, b) == IF Truthy(a) THEN a ELSE b

EditErrorPrefix == "Error editing image: "

\* the validation of lines 157-167 without its third test
editValidationNoMimeTest(in) ==
    IF ~Truthy(in.path) /\ ~Truthy(in.image_base64)
    THEN Some("Either 'path' or 'image_base64' must be provided")
    ELSE IF Truthy(in.path) /\ Truthy(in.image_base64)
    THEN Some("Cannot provide both 'path' and 'image_base64'. Choose one.")
    ELSE None

\* the message of the error that the validation of lines 157-167 throws,
\* None when it throws none
editValidation(in) ==
    IF ~Truthy(in.path) /\ ~Truthy(in.image_base64)
    THEN Some("Either 'path' or 'image_base64' must be provided")
    ELSE IF Truthy(in.path) /\ Truthy(in.image_base64)
    THEN Some("Cannot provide both 'path' and 'image_base64'. Choose one.")
    ELSE IF Truthy(in.image_base64) /\ ~Truthy(in.mime_type)
    THEN Some("'mime_type' is required when using 'image_base64'")
    ELSE None

\* defaultOutputPath of lines 176-187
defaultOutputPath(in) ==
    IF Truthy(in.path) THEN OrElse(in.output_path, in.path) ELSE in.output_path

\* the arguments of generator.editImage (lines 170-196)
editImageCall(fixed, in) ==
    [method |-> "editImage",
     imageInput |-> IF Truthy(in.path)
                    THEN [path |-> in.path, base64 |-> None, mimeType |-> None]
                    ELSE [path |-> None, base64 |-> in.image_base64,
                          mimeType |-> in.mime_type],
     prompt |-> in.prompt,
     outputPath |-> defaultOutputPath(in),
     model |-> OrElse(fixed, OrElse(in.model, Some("pro")))]

\* the result of the catch block (lines 218-229); the message of an Error
\* and the string of any other thrown value are both given as message
editError(message) ==
    [kind |-> "resolved",
     content |-> <<[type |-> "text", text |-> EditErrorPrefix \o message]>>,
     isError |-> TRUE]

\* what the handler's promise settles to when editImage settled (lines
\* 198-229)
editSettled(in, settled) ==
    IF settled.kind = "throw" THEN editError(settled.message)
    ELSE IF Truthy(defaultOutputPath(in))
    THEN Resolved("Image successfully edited and saved to: " \o settled.value)
    ELSE Resolved("Image successfully edited. Base64 data:\n" \o settled.value)

(***************************************************************************)
(* The calls.  A state holds the arguments of one call of an exported      *)
(* function, and once the call has returned, the tree it built and the     *)
(* string it returned.  Where calls follow one another on the same         *)
(* objects, log holds one record per call that has returned.               *)
(***************************************************************************)
VARIABLES call, items, dirPath, options, bytes, pc, tree, result, log,
          repoIdentifier, args,
          initialPort, port, tried, listenCallbacks, actualPort, apiKey,
          requests, servers, transports, lastError, exitStatus,
          inserted,
          tool, toolRepo, fixedModel, input, serviceCalls, fetchCalls, upstream, outcome

\* the arguments of the functions of config/arguments.ts
argumentVars == <<repoIdentifier, args>>

\* the state of server.ts in HTTP mode
serverVars ==
    <<initialPort, port, tried, listenCallbacks, actualPort, apiKey,
      requests, servers, transports, lastError, exitStatus>>

\* the number of entries that a builder has inserted so far
buildVars == <<inserted>>

\* a tool handler: the tool's name, the repoIdentifier or fixedModel it was
\* created with and the input it was called with, the calls it made to its service (the fetcher or the
\* generator), the calls made to the global fetch, what the service's
\* collaborator does when called, and what the handler's promise settled to
toolVars ==
    <<tool, toolRepo, fixedModel, input, serviceCalls, fetchCalls, upstream, outcome>>

vars == <<call, items, dirPath, options, bytes, pc, tree, result, log,
          argumentVars, serverVars, buildVars, toolVars>>

\* the values of the variables that a call of another module leaves unused
ArgumentsIdle == repoIdentifier = "" /\ args = <<>>

ServerIdle ==
    /\ initialPort = 0
    /\ port = 0
    /\ tried = <<>>
    /\ listenCallbacks = <<>>
    /\ actualPort = 0
    /\ apiKey = FALSE
    /\ requests = <<>>
    /\ servers = <<>>
    /\ transports = <<>>
    /\ lastError = ""
    /\ exitStatus = <<>>

BuildIdle == inserted = 0

ToolsIdle ==
    /\ tool = ""
    /\ toolRepo = <<>>
    /\ fixedModel = <<>>
    /\ input = <<>>
    /\ serviceCalls = <<>>
    /\ fetchCalls = <<>>
    /\ upstream = <<>>
    /\ outcome = <<>>

\* largest number of entries of a generated entry list
MaxEntries == 2

\* largest maxDepth option tried
MaxDepthOption == 2

\* formatSize is tried on every byte count within this distance of a threshold
SizeWindow == 60

Blob(path, size) == [path |-> path, type |-> "blob", size |-> size]

Tree(path) == [path |-> path, type |-> "tree", size |-> None]

\* entries from which the generated lists are drawn: a file and a directory
\* with the same path; files with and without a size; paths of one, two and
\* three segments; names that match and do not match the extension filters
EntryPool ==
    { Blob("a", None), Tree("a"),
      Blob("a/b/c.ts", Some(600)), Blob("a/d.md", Some(600)),
      Blob("e.ts", Some(600)) }

\* entry lists of the test suites and of the specification's examples, and
\* lists with the cases the pool lacks: upper-case extensions, sizes of 0
\* bytes and of a megabyte, four segments, a nested file and directory with
\* the same path, a directory named like a file, a path that only shares a
\* string prefix with the directory path "a", several siblings to sort
ExampleLists ==
    { <<Tree("src"), Blob("src/index.ts", Some(100)), Blob("src/utils.ts", Some(200)),
        Blob("README.md", Some(50))>>,
      <<Tree("src"), Blob("src/index.ts", Some(1024)), Blob("src/utils.ts", Some(2048))>>,
      <<Blob("file1.ts", Some(100)), Blob("file2.js", Some(200)), Blob("file3.md", Some(300))>>,
      <<Blob("a/x.TS", Some(5)), Blob("a/y.ts", Some(0)), Blob("a/b/c/deep.ts", Some(1048576))>>,
      <<Tree("a"), Tree("a/b"), Blob("a/b/c.ts", None), Blob("a/b", Some(7)),
        Blob("ab/c.ts", Some(1)), Blob("f.ts", Some(2048))>>,
      <<Blob("a/b", None), Tree("a/b")>>,
      <<Tree("e.ts"), Blob("ab/c.js", Some(600))>>,
      <<Blob("b", Some(1)), Blob("a/z", Some(2)), Blob("a/y", Some(3)), Tree("c")>>,
      <<Blob("a/b", Some(600)), Blob("a/b/c.ts", Some(600)), Blob("a/d.md", None)>>,
      <<Tree("src"), Tree("src/components"), Blob("src/components/Button.tsx", Some(10)),
        Tree("src/utils"), Blob("src/utils/helpers.ts", Some(20))>>,
      <<Blob("README.md", Some(50)), Blob("index.ts", Some(100)), Tree("Docs"), Tree("bin")>> }

EntryLists ==
    UNION {[1..n -> EntryPool] : n \in 0..MaxEntries} \cup ExampleLists

DirPaths == {"", "/a/"}

OptionSets ==
    [showSize : {None, Some(TRUE)},
     maxDepth : {None} \cup {Some(d) : d \in 1..MaxDepthOption},
     showStats : {None, Some(TRUE), Some(FALSE)},
     fileExtFilter : {None, Some(<<>>), Some(<<".ts", ".js">>)}]

\* formatSubTree's default for its options parameter: {}
DefaultOptions ==
    [showSize |-> None, maxDepth |-> None, showStats |-> None, fileExtFilter |-> None]

SizeInputs ==
    (0..SizeWindow)
    \cup {t + d : t \in {KB, MB, GB}, d \in (0 - SizeWindow)..SizeWindow}
    \cup {1280, 3072, 5242880, 2147483647}

Init ==
    /\ call \in {"formatTree", "formatSubTree"}
    /\ items \in EntryLists
    /\ dirPath \in DirPaths
    /\ options \in (IF call = "formatSubTree" THEN OptionSets ELSE {DefaultOptions})
    /\ bytes = 0
    /\ pc = "call"
    /\ tree = NoTree
    /\ result = ""
    /\ log = <<>>
    /\ ArgumentsIdle
    /\ ServerIdle
    /\ BuildIdle
    /\ ToolsIdle

CallFormatTree ==
    /\ pc = "call"
    /\ call = "formatTree"
    /\ LET run == formatTreeRun(items, dirPath)
       IN  tree' = run.tree /\ result' = run.result
    /\ pc' = "done"
    /\ UNCHANGED <<call, items, dirPath, options, bytes, log, argumentVars, serverVars>>
    /\ UNCHANGED <<buildVars, toolVars>>

CallFormatSubTree ==
    /\ pc = "call"
    /\ call = "formatSubTree"
    /\ LET run == formatSubTreeRun(items, dirPath, options)
       IN  tree' = run.tree /\ result' = run.result
    /\ pc' = "done"
    /\ UNCHANGED <<call, items, dirPath, options, bytes, log, argumentVars, serverVars>>
    /\ UNCHANGED <<buildVars, toolVars>>

Next == CallFormatTree \/ CallFormatSubTree

Spec == Init /\ [][Next]_vars

InitSize ==
    /\ call = "formatSize"
    /\ items = <<>>
    /\ dirPath = ""
    /\ options = DefaultOptions
    /\ bytes \in SizeInputs
    /\ pc = "call"
    /\ tree = NoTree
    /\ result = ""
    /\ log = <<>>
    /\ ArgumentsIdle
    /\ ServerIdle
    /\ BuildIdle
    /\ ToolsIdle

CallFormatSize ==
    /\ pc = "call"
    /\ call = "formatSize"
    /\ result' = formatSize(bytes)
    /\ pc' = "done"
    /\ UNCHANGED <<call, items, dirPath, options, bytes, tree, log, argumentVars, serverVars>>
    /\ UNCHANGED <<buildVars, toolVars>>

NextSize == CallFormatSize

SpecSize == InitSize /\ [][NextSize]_vars

\* largest number of calls that follow one another on the same objects
MaxCalls == 3

\* the entry list with its elements in the opposite order, as after an
\* in-place reversal
entriesReversed(entries) == [k \in 1..Len(entries) |-> entries[Len(entries) + 1 - k]]

\* treeResponse.tree after a call: buildTree and buildEnhancedTree read the
\* array through filter and for-of and copy name, type and size out of the
\* entries, so the array and its entries are as before
entriesAfterBuild(entries) == entries

\* the options object after a call of formatSubTree, which only reads it
optionsAfterRender(opts) == opts

RepeatOptions ==
    { DefaultOptions,
      [showSize |-> Some(TRUE), maxDepth |-> Some(2), showStats |-> Some(TRUE),
       fileExtFilter |-> Some(<<".ts", ".js">>)] }

InitRepeat ==
    /\ call = "formatTree"
    /\ items \in ExampleLists
    /\ dirPath = ""
    /\ options \in RepeatOptions
    /\ bytes = 0
    /\ pc = "call"
    /\ tree = NoTree
    /\ result = ""
    /\ log = <<>>
    /\ ArgumentsIdle
    /\ ServerIdle
    /\ BuildIdle
    /\ ToolsIdle

LogRecord(name, path, text) ==
    [call |-> name, items |-> items, dirPath |-> path, options |-> options, result |-> text]

\* one more call of formatTree on the entry list, with any directory path
RepeatFormatTree ==
    /\ Len(log) < MaxCalls
    /\ \E path \in DirPaths :
         LET run == formatTreeRun(items, path)
         IN  /\ dirPath' = path
             /\ tree' = run.tree
             /\ result' = run.result
             /\ log' = Append(log, LogRecord("formatTree", path, run.result))
    /\ call' = "formatTree"
    /\ pc' = "done"
    /\ items' = entriesAfterBuild(items)
    /\ UNCHANGED <<options, bytes, argumentVars, serverVars>>
    /\ UNCHANGED <<buildVars, toolVars>>

\* one more call of formatSubTree on the entry list and the options object
RepeatFormatSubTree ==
    /\ Len(log) < MaxCalls
    /\ \E path \in DirPaths :
         LET run == formatSubTreeRun(items, path, options)
         IN  /\ dirPath' = path
             /\ tree' = run.tree
             /\ result' = run.result
             /\ log' = Append(log, LogRecord("formatSubTree", path, run.result))
    /\ call' = "formatSubTree"
    /\ pc' = "done"
    /\ items' = entriesAfterBuild(items)
    /\ options' = optionsAfterRender(options)
    /\ UNCHANGED <<bytes, argumentVars, serverVars>>
    /\ UNCHANGED <<buildVars, toolVars>>

NextRepeat == RepeatFormatTree \/ RepeatFormatSubTree

SpecRepeat == InitRepeat /\ [][NextRepeat]_vars

\* largest length of a generated path string
MaxPathLen == 4

PathAlphabet == {"a", "b", "/", "\\"}

RECURSIVE StringsUpTo(_, _)
\* the strings over an alphabet of at most n characters
StringsUpTo(alphabet, n) ==
    IF n = 0 THEN {""}
    ELSE LET shorter == StringsUpTo(alphabet, n - 1)
         IN  shorter \cup {t \o c : t \in shorter, c \in alphabet}

\* the arguments of the test suite's calls
PathExamples ==
    { "/path/to/file.ts", "path/to/dir/", "/path/to/dir/", "file.ts", "", "/",
      "///path/to/file.ts", "path/to/dir///", "path/to/deeply/nested/file.ts",
      "path\\to\\file.ts", "path/to\\file.ts", "\\\\srv//share\\/dir/\\" }

PathInputs == StringsUpTo(PathAlphabet, MaxPathLen) \cup PathExamples

InitPath ==
    /\ call = "normalizePath"
    /\ items = <<>>
    /\ dirPath \in PathInputs
    /\ options = DefaultOptions
    /\ bytes = 0
    /\ pc = "call"
    /\ tree = NoTree
    /\ result = ""
    /\ log = <<>>
    /\ ArgumentsIdle
    /\ ServerIdle
    /\ BuildIdle
    /\ ToolsIdle

CallNormalizePath ==
    /\ pc = "call"
    /\ call = "normalizePath"
    /\ result' = normalizePath(dirPath)
    /\ pc' = "done"
    /\ UNCHANGED <<call, items, dirPath, options, bytes, tree, log, argumentVars, serverVars>>
    /\ UNCHANGED <<buildVars, toolVars>>

NextPath == CallNormalizePath

SpecPath == InitPath /\ [][NextPath]_vars

\* largest length of a generated repository identifier
MaxIdentifierLen == 5

\* largest number of generated command-line arguments
MaxArgs == 3

IdentifierExamples ==
    { "facebook/react/main", "microsoft/vscode/develop", "my-org/my_repo/feature-branch",
      "facebook/react", "facebook/react/main/extra", "", "/react/main", "facebook//main",
      "facebook/react/", "invalid" }

IdentifierInputs == StringsUpTo({"o", "/"}, MaxIdentifierLen) \cup IdentifierExamples

ArgPool == {"--repoIdentifier", "--port", "", "o/r/b", "o/r", "o//b", "node"}

ArgExamples ==
    { <<"node", "server.js">>,
      <<"node", "server.js", "--repoIdentifier", "facebook/react/main">>,
      <<"node", "server.js", "--port", "3000", "--repoIdentifier", "facebook/react/main",
        "--verbose">>,
      <<"node", "server.js", "--repoIdentifier">>,
      <<"node", "server.js", "--repoIdentifier", "--port">>,
      <<"node", "server.js", "--repoIdentifier", "invalid">>,
      <<"--repoIdentifier", "o/r", "--repoIdentifier", "o/r/b">> }

ArgLists == UNION {[1..n -> ArgPool] : n \in 0..MaxArgs} \cup ArgExamples

InitArgs ==
    /\ call \in {"parseRepoIdentifier", "parseArgs"}
    /\ repoIdentifier \in (IF call = "parseRepoIdentifier" THEN IdentifierInputs ELSE {""})
    /\ args \in (IF call = "parseArgs" THEN ArgLists ELSE {<<>>})
    /\ items = <<>>
    /\ dirPath = ""
    /\ options = DefaultOptions
    /\ bytes = 0
    /\ pc = "call"
    /\ tree = NoTree
    /\ result = ""
    /\ log = <<>>
    /\ ServerIdle
    /\ BuildIdle
    /\ ToolsIdle

CallParseRepoIdentifier ==
    /\ pc = "call"
    /\ call = "parseRepoIdentifier"
    /\ result' = parseRepoIdentifier(repoIdentifier)
    /\ pc' = "done"
    /\ UNCHANGED <<call, items, dirPath, options, bytes, tree, log, argumentVars, serverVars>>
    /\ UNCHANGED <<buildVars, toolVars>>

CallParseArgs ==
    /\ pc = "call"
    /\ call = "parseArgs"
    /\ result' = parseArgs(args)
    /\ pc' = "done"
    /\ UNCHANGED <<call, items, dirPath, options, bytes, tree, log, argumentVars, serverVars>>
    /\ UNCHANGED <<buildVars, toolVars>>

NextArgs == CallParseRepoIdentifier \/ CallParseArgs

SpecArgs == InitArgs /\ [][NextArgs]_vars

(***************************************************************************)
(* server.ts in HTTP mode.  pc is the position of main: "call" before it   *)
(* runs, "binding" while a listen is pending, "listening", or "exited".    *)
(* tried holds the ports that listen was called with, listenCallbacks the  *)
(* port of every callback passed to listen (each stays registered for the  *)
(* 'listening' event).  A request holds the position of its handler:       *)
(* "connecting" and "handling" at the two awaits, "responded" once a       *)
(* status line is written, "rejected" when the handler threw outside its   *)
(* try block.  servers and transports are the objects created so far.      *)
(***************************************************************************)
\* largest number of requests that arrive
MaxRequests == 2

InitialPorts == {DEFAULT_PORT, 3000, 65530}

RequestKinds ==
    { [method |-> "POST", url |-> "/mcp"],
      [method |-> "POST", url |-> "/mcp?x=1"],
      [method |-> "GET", url |-> "/mcp"],
      [method |-> "POST", url |-> "/"],
      [method |-> "GET", url |-> "//"] }

\* the outcomes of a listen that fails
ListenErrors == {"EADDRINUSE", "EACCES"}

InitServer ==
    /\ call = "main"
    /\ pc = "call"
    /\ initialPort \in InitialPorts
    /\ apiKey \in BOOLEAN
    /\ port = 0
    /\ tried = <<>>
    /\ listenCallbacks = <<>>
    /\ actualPort = 0
    /\ requests = <<>>
    /\ servers = <<>>
    /\ transports = <<>>
    /\ lastError = ""
    /\ exitStatus = None
    /\ items = <<>>
    /\ dirPath = ""
    /\ options = DefaultOptions
    /\ bytes = 0
    /\ tree = NoTree
    /\ result = ""
    /\ log = <<>>
    /\ ArgumentsIdle
    /\ BuildIdle
    /\ ToolsIdle

\* startServer(p): the error listener is registered and listen is called.
\* listen throws for a port above MaxPort: thrown from main, the catch of
\* line 174 exits with status 1; thrown from the error listener, the
\* uncaught exception ends the process with status 1.
startServer(p) ==
    IF p > MaxPort
    THEN /\ pc' = "exited"
         /\ exitStatus' = Some(1)
         /\ UNCHANGED <<port, tried, listenCallbacks>>
    ELSE /\ port' = p
         /\ tried' = Append(tried, p)
         /\ listenCallbacks' = Append(listenCallbacks, p)
         /\ pc' = "binding"
         /\ UNCHANGED exitStatus

\* main in HTTP mode: actualPort starts as initialPort, the HTTP server is
\* created and startServer(initialPort) is called
Main ==
    /\ pc = "call"
    /\ call = "main"
    /\ actualPort' = initialPort
    /\ startServer(initialPort)
    /\ UNCHANGED <<call, items, dirPath, options, bytes, tree, result, log, argumentVars,
                   initialPort, apiKey, requests, servers, transports, lastError>>
    /\ UNCHANGED <<buildVars, toolVars>>

\* the pending listen succeeds: the registered callbacks run in order
Listening ==
    /\ pc = "binding"
    /\ pc' = "listening"
    /\ actualPort' = listenCallbacks[Len(listenCallbacks)]
    /\ UNCHANGED <<call, items, dirPath, options, bytes, tree, result, log, argumentVars,
                   initialPort, port, tried, listenCallbacks, apiKey, requests, servers,
                   transports, lastError, exitStatus>>
    /\ UNCHANGED <<buildVars, toolVars>>

\* a listen that fails by retrying whatever the error is
onListenErrorAlwaysRetry(code) ==
    IF port < initialPort + maxAttempts
    THEN startServer(port + 1)
    ELSE /\ pc' = "exited"
         /\ exitStatus' = Some(1)
         /\ UNCHANGED <<port, tried, listenCallbacks>>

\* the error listener of lines 145-153 for an error with the given code
onListenError(code) ==
    IF code = "EADDRINUSE" /\ port < initialPort + maxAttempts
    THEN startServer(port + 1)
    ELSE /\ pc' = "exited"
         /\ exitStatus' = Some(1)
         /\ UNCHANGED <<port, tried, listenCallbacks>>

\* the pending listen fails: the error listener runs
BindError ==
    /\ pc = "binding"
    /\ \E code \in ListenErrors :
         /\ lastError' = code
         /\ onListenError(code)
    /\ UNCHANGED <<call, items, dirPath, options, bytes, tree, result, log, argumentVars,
                   initialPort, actualPort, apiKey, requests, servers, transports>>
    /\ UNCHANGED <<buildVars, toolVars>>

Request(kind, stage, server, transport, status) ==
    [method |-> kind.method, url |-> kind.url, stage |-> stage, server |-> server,
     transport |-> transport, status |-> status, closed |-> FALSE]

\* createServerInstance(): the index of the new McpServer among the
\* instances created so far
createServerInstance(instances) == Len(instances) + 1

\* a request arrives and its handler runs up to its first await (lines
\* 109-133).  new URL stands outside the try block: when it throws, the
\* handler's promise rejects with nothing written, and the unhandled
\* rejection ends the process or not, as the runtime is configured.  new
\* ImageGenerator throws inside the try block when there is no API key.
Arrive ==
    /\ pc = "listening"
    /\ Len(requests) < MaxRequests
    /\ \E kind \in RequestKinds :
         LET pathname == pathnameOf(kind.url)
         IN  IF ~IsSome(pathname)
             THEN /\ requests' = Append(requests, Request(kind, "rejected", 0, 0, 0))
                  /\ \E crash \in BOOLEAN :
                       IF crash THEN pc' = "exited" /\ exitStatus' = Some(1)
                       ELSE UNCHANGED <<pc, exitStatus>>
                  /\ UNCHANGED <<servers, transports>>
             ELSE IF Get(pathname) = "/mcp" /\ kind.method = "POST"
             THEN IF apiKey
                  THEN LET requestServer == createServerInstance(servers)
                           transport == Len(transports) + 1
                       IN  /\ servers' =
                                Append(servers, [closed |-> FALSE, transport |-> 0])
                           /\ transports' = Append(transports, [closed |-> FALSE])
                           /\ requests' = Append(requests,
                                Request(kind, "connecting", requestServer, transport, 0))
                           /\ UNCHANGED <<pc, exitStatus>>
                  ELSE /\ requests' = Append(requests, Request(kind, "responded", 0, 0, 500))
                       /\ UNCHANGED <<pc, exitStatus, servers, transports>>
             ELSE /\ requests' = Append(requests, Request(kind, "responded", 0, 0, 404))
                  /\ UNCHANGED <<pc, exitStatus, servers, transports>>
    /\ UNCHANGED <<call, items, dirPath, options, bytes, tree, result, log, argumentVars,
                   initialPort, port, tried, listenCallbacks, actualPort, apiKey,
                   lastError>>
    /\ UNCHANGED <<buildVars, toolVars>>

\* await requestServer.connect(transport) settles (line 128): on rejection
\* the catch block answers 500
Connected ==
    /\ pc = "listening"
    /\ \E r \in 1..Len(requests) :
         /\ requests[r].stage = "connecting"
         /\ \E ok \in BOOLEAN :
              IF ok
              THEN /\ requests' = [requests EXCEPT ![r].stage = "handling"]
                   /\ servers' = [servers EXCEPT ![requests[r].server].transport =
                                                    requests[r].transport]
              ELSE /\ requests' = [requests EXCEPT ![r].stage = "responded", ![r].status = 500]
                   /\ servers' = servers
    /\ UNCHANGED <<call, pc, items, dirPath, options, bytes, tree, result, log, argumentVars,
                   initialPort, port, tried, listenCallbacks, actualPort, apiKey, transports>>
    /\ UNCHANGED <<buildVars, toolVars, lastError, exitStatus>>

\* await transport.handleRequest(req, res) settles (line 129): the transport
\* has written the response, or it rejects before the headers are sent and
\* the catch block answers 500
Handled ==
    /\ pc = "listening"
    /\ \E r \in 1..Len(requests) :
         /\ requests[r].stage = "handling"
         /\ \E status \in {200, 500} :
              requests' = [requests EXCEPT ![r].stage = "responded", ![r].status = status]
    /\ UNCHANGED <<call, pc, items, dirPath, options, bytes, tree, result, log, argumentVars,
                   initialPort, port, tried, listenCallbacks, actualPort, apiKey, servers,
                   transports>>
    /\ UNCHANGED <<buildVars, toolVars, lastError, exitStatus>>

\* the 'close' event of a request's response, after the response or when
\* the client goes away: the listener of lines 123-126, if registered, runs
Close ==
    /\ pc = "listening"
    /\ \E r \in 1..Len(requests) :
         /\ ~requests[r].closed
         /\ requests' = [requests EXCEPT ![r].closed = TRUE]
         /\ IF requests[r].server # 0
            THEN /\ transports' = [transports EXCEPT ![requests[r].transport].closed = TRUE]
                 /\ servers' = [servers EXCEPT ![requests[r].server].closed = TRUE]
            ELSE UNCHANGED <<servers, transports>>
    /\ UNCHANGED <<call, pc, items, dirPath, options, bytes, tree, result, log, argumentVars,
                   initialPort, port, tried, listenCallbacks, actualPort, apiKey>>
    /\ UNCHANGED <<buildVars, toolVars, lastError, exitStatus>>

NextServer == Main \/ Listening \/ BindError \/ Arrive \/ Connected \/ Handled \/ Close

SpecServer == InitServer /\ [][NextServer]_vars

\* main runs when the module is loaded, and every listen ends in a
\* 'listening' or an 'error' event
SpecServerLive ==
    InitServer /\ [][NextServer]_vars /\ WF_vars(Main) /\ WF_vars(Listening \/ BindError)

(***************************************************************************)
(* The handlers of fetch-file, fetch-subdir-tree and fetch-sub-tree.  pc   *)
(* is "call" before the handler runs, "fetching" while the fetcher awaits  *)
(* the response of fetch, "done" once the handler's promise has settled.   *)
(* upstream is what fetch will settle to.                                  *)
(***************************************************************************)
FetchTools == {"fetch-file", "fetch-subdir-tree", "fetch-sub-tree"}

RepoIdentifiers ==
    { None,
      Some([owner |-> "facebook", repo |-> "react", branch |-> "main"]),
      Some([owner |-> "facebook", repo |-> "react", branch |-> "canary"]) }

\* paths given as filePath / dirPath
ToolPaths == {"", "src/index.ts", "/src/"}

ToolOptions ==
    { DefaultOptions,
      [showSize |-> Some(TRUE), maxDepth |-> Some(1), showStats |-> None,
       fileExtFilter |-> None] }

FetchInputs ==
    [ownerName : {None, Some("owner")},
     repoName : {None, Some("repo")},
     branchName : {None, Some(""), Some("develop")},
     path : ToolPaths,
     options : ToolOptions]

\* the bodies of successful responses: a file's text, a tree response's list
FileBodies == {"export const foo = 1;"}

TreeBodies ==
    { <<>>,
      <<Tree("src"), Blob("src/index.ts", Some(100)), Blob("README.md", Some(50))>> }

FailedResponses ==
    { [kind |-> "reject", error |-> "fetch failed"],
      [kind |-> "response", status |-> 404, statusText |-> "Not Found", body |-> ""],
      [kind |-> "response", status |-> 403, statusText |-> "", body |-> ""],
      [kind |-> "response", status |-> 500, statusText |-> "Internal Server Error",
       body |-> ""] }

Upstreams(name) ==
    FailedResponses \cup
    { [kind |-> "response", status |-> 200, statusText |-> "OK", body |-> b] :
        b \in (IF name = "fetch-file" THEN FileBodies ELSE TreeBodies) }

InitTools ==
    /\ call = "handler"
    /\ pc = "call"
    /\ tool \in FetchTools
    /\ toolRepo \in RepoIdentifiers
    /\ fixedModel = None
    /\ input \in FetchInputs
    /\ upstream \in Upstreams(tool)
    /\ serviceCalls = <<>>
    /\ fetchCalls = <<>>
    /\ outcome = <<>>
    /\ items = <<>>
    /\ dirPath = ""
    /\ options = DefaultOptions
    /\ bytes = 0
    /\ tree = NoTree
    /\ result = ""
    /\ log = <<>>
    /\ ArgumentsIdle
    /\ ServerIdle
    /\ BuildIdle

\* the handler runs up to its await, and the fetcher up to its await of fetch
CallHandler ==
    /\ pc = "call"
    /\ call = "handler"
    /\ tool \in FetchTools
    /\ LET c == fetcherCall(tool, toolRepo, input)
       IN  /\ serviceCalls' = Append(serviceCalls, c)
           /\ fetchCalls' = Append(fetchCalls, fetcherUrl(c))
    /\ pc' = "fetching"
    /\ UNCHANGED <<call, items, dirPath, options, bytes, tree, result, log, argumentVars,
                   serverVars, buildVars, tool, toolRepo, fixedModel, input, upstream, outcome>>

\* fetch settles, then the fetcher's promise, then the handler's
FetchSettles ==
    /\ pc = "fetching"
    /\ outcome' = handlerSettled(tool, input,
                     fetcherSettled(IF tool = "fetch-file" THEN "file" ELSE "directory tree",
                                    upstream))
    /\ pc' = "done"
    /\ UNCHANGED <<call, items, dirPath, options, bytes, tree, result, log, argumentVars,
                   serverVars, buildVars, tool, toolRepo, fixedModel, input, serviceCalls,
                   fetchCalls, upstream>>

NextTools == CallHandler \/ FetchSettles

SpecTools == InitTools /\ [][NextTools]_vars

(***************************************************************************)
(* The handler of edit_image.  pc is "call" before the handler runs,       *)
(* "editing" while it awaits generator.editImage, "done" once its promise  *)
(* has settled.  upstream is what editImage will settle to.                *)
(***************************************************************************)
OptionalStrings(values) == {None, Some("")} \cup {Some(v) : v \in values}

EditInputs ==
    [path : OptionalStrings({"/images/in.png"}),
     image_base64 : OptionalStrings({"aGVsbG8="}),
     mime_type : OptionalStrings({"image/png"}),
     output_path : OptionalStrings({"/images/out.png"}),
     prompt : {"add a hat"},
     model : {None, Some("normal")}]

EditOutcomes ==
    { Return("/images/out.png"),
      Throw("No image was generated in the response"),
      Throw("quota exceeded") }

InitEdit ==
    /\ call = "handler"
    /\ pc = "call"
    /\ tool = "edit_image"
    /\ toolRepo = None
    /\ fixedModel \in {None, Some("normal")}
    /\ input \in EditInputs
    /\ upstream \in EditOutcomes
    /\ serviceCalls = <<>>
    /\ fetchCalls = <<>>
    /\ outcome = <<>>
    /\ items = <<>>
    /\ dirPath = ""
    /\ options = DefaultOptions
    /\ bytes = 0
    /\ tree = NoTree
    /\ result = ""
    /\ log = <<>>
    /\ ArgumentsIdle
    /\ ServerIdle
    /\ BuildIdle

\* the handler runs up to its await of generator.editImage, or to the end
\* when the validation throws
CallEditImage ==
    /\ pc = "call"
    /\ call = "handler"
    /\ tool = "edit_image"
    /\ LET invalid == editValidation(input)
       IN  IF IsSome(invalid)
           THEN /\ outcome' = editError(Get(invalid))
                /\ pc' = "done"
                /\ UNCHANGED serviceCalls
           ELSE /\ serviceCalls' = Append(serviceCalls, editImageCall(fixedModel, input))
                /\ pc' = "editing"
                /\ UNCHANGED outcome
    /\ UNCHANGED <<call, items, dirPath, options, bytes, tree, result, log, argumentVars,
                   serverVars, buildVars, tool, toolRepo, fixedModel, input, fetchCalls,
                   upstream>>

\* generator.editImage settles, then the handler's promise
EditSettles ==
    /\ pc = "editing"
    /\ outcome' = editSettled(input, upstream)
    /\ pc' = "done"
    /\ UNCHANGED <<call, items, dirPath, options, bytes, tree, result, log, argumentVars,
                   serverVars, buildVars, tool, toolRepo, fixedModel, input, serviceCalls,
                   fetchCalls, upstream>>

NextEdit == CallEditImage \/ EditSettles

SpecEdit == InitEdit /\ [][NextEdit]_vars

(***************************************************************************)
(* buildEnhancedTree and buildTree, one entry at a time.  tree is the root *)
(* with the values of childrenMap, in insertion order, as its children;    *)
(* inserted is the number of filtered items that the loop has processed;   *)
(* pc is "building" during the loop and "done" after the final sort.       *)
(***************************************************************************)
BuildOptions ==
    { DefaultOptions,
      [showSize |-> None, maxDepth |-> None, showStats |-> None,
       fileExtFilter |-> Some(<<".ts", ".js">>)] }

\* filteredItems of lines 53-56 / 18-21
filteredItems == filterItems(items, normalizePath(dirPath))

InitBuild ==
    /\ call \in {"buildEnhancedTree", "buildTree"}
    /\ items \in EntryLists
    /\ dirPath \in DirPaths
    /\ options \in (IF call = "buildEnhancedTree" THEN BuildOptions ELSE {DefaultOptions})
    /\ pc = "building"
    /\ tree = (IF call = "buildEnhancedTree"
               THEN [name |-> "", isDirectory |-> TRUE, size |-> None, children |-> <<>>,
                     depth |-> 0]
               ELSE [name |-> "", isDirectory |-> TRUE, children |-> <<>>])
    /\ inserted = 0
    /\ bytes = 0
    /\ result = ""
    /\ log = <<>>
    /\ ArgumentsIdle
    /\ ServerIdle
    /\ ToolsIdle

\* one iteration of the loop of buildEnhancedTree
InsertEnhanced ==
    /\ pc = "building"
    /\ call = "buildEnhancedTree"
    /\ inserted < Len(filteredItems)
    /\ tree' = [tree EXCEPT !.children =
                  enhancedInsert(tree.children, filteredItems[inserted + 1],
                                 normalizePath(dirPath), options)]
    /\ inserted' = inserted + 1
    /\ UNCHANGED <<call, items, dirPath, options, bytes, pc, result, log, argumentVars,
                   serverVars, toolVars>>

\* the sort of lines 103-109 after the loop
SortEnhancedRoot ==
    /\ pc = "building"
    /\ call = "buildEnhancedTree"
    /\ inserted = Len(filteredItems)
    /\ tree' = [tree EXCEPT !.children = sortEnhanced(tree.children)]
    /\ pc' = "done"
    /\ UNCHANGED <<call, items, dirPath, options, bytes, result, log, argumentVars,
                   serverVars, buildVars, toolVars>>

\* one iteration of the loop of buildTree
InsertPlain ==
    /\ pc = "building"
    /\ call = "buildTree"
    /\ inserted < Len(filteredItems)
    /\ tree' = [tree EXCEPT !.children =
                  plainInsert(tree.children, filteredItems[inserted + 1],
                              normalizePath(dirPath))]
    /\ inserted' = inserted + 1
    /\ UNCHANGED <<call, items, dirPath, options, bytes, pc, result, log, argumentVars,
                   serverVars, toolVars>>

\* the sort of lines 59-65 after the loop
SortPlainRoot ==
    /\ pc = "building"
    /\ call = "buildTree"
    /\ inserted = Len(filteredItems)
    /\ tree' = [tree EXCEPT !.children = sortPlain(tree.children)]
    /\ pc' = "done"
    /\ UNCHANGED <<call, items, dirPath, options, bytes, result, log, argumentVars,
                   serverVars, buildVars, toolVars>>

NextBuild == InsertEnhanced \/ SortEnhancedRoot \/ InsertPlain \/ SortPlainRoot

SpecBuild == InitBuild /\ [][NextBuild]_vars

(***************************************************************************)
(* Reading a returned string back: its lines, the summary, and for each    *)
(* body line the depth its glyph prefix encodes, the name, the directory   *)
(* mark and the annotation.  Independent of the rendering operators.       *)
(***************************************************************************)
Lines(text) == Split(text, "\n")

HasSummary(text) ==
    LET lines == Lines(text)
    IN  /\ Len(lines) >= 3
        /\ lines[Len(lines) - 1] = ""
        /\ StartsWith(lines[Len(lines)], SummaryLabel)

SummaryLine(text) == Lines(text)[Len(Lines(text))]

BodyLines(text) ==
    IF text = EmptyDirectory THEN <<>>
    ELSE IF HasSummary(text) THEN SubSeq(Lines(text), 1, Len(Lines(text)) - 2)
    ELSE Lines(text)

Glyphs == {ConnectorLast, ConnectorMiddle, PrefixLast, PrefixMiddle}

\* the number of leading four-character glyph groups of a line
GlyphGroups(line) ==
    Cardinality({j \in 1..(Len(line) \div 4) :
        \A g \in 1..j : SubSeq(line, 4 * g - 3, 4 * g) \in Glyphs})

LineDepth(line) == GlyphGroups(line) + 1

LineDisplay(line) == Substring(line, 4 * GlyphGroups(line))

\* the position of the first " (" of a display name, 0 if there is none
AnnotationStart(display) ==
    LET starts == {k \in 1..(Len(display) - 1) : SubSeq(display, k, k + 1) = " ("}
    IN  IF starts = {} THEN 0 ELSE CHOOSE k \in starts : \A m \in starts : k <= m

LineLabel(line) ==
    LET display == LineDisplay(line)
    IN  IF AnnotationStart(display) = 0 THEN display
        ELSE SubSeq(display, 1, AnnotationStart(display) - 1)

LineAnnotation(line) ==
    LET display == LineDisplay(line)
    IN  IF AnnotationStart(display) = 0 THEN ""
        ELSE Substring(display, AnnotationStart(display) - 1)

LineIsDirectory(line) == EndsWith(LineLabel(line), "/")

LineName(line) ==
    IF LineIsDirectory(line)
    THEN SubSeq(LineLabel(line), 1, Len(LineLabel(line)) - 1)
    ELSE LineLabel(line)

ParsedLine(line) ==
    [depth |-> LineDepth(line), name |-> LineName(line),
     isDirectory |-> LineIsDirectory(line), annotation |-> LineAnnotation(line)]

ParsedBody(text) == [k \in 1..Len(BodyLines(text)) |-> ParsedLine(BodyLines(text)[k])]

(***************************************************************************)
(* Reading a tree and an entry list: the nodes in pre-order with their     *)
(* path from the root, and the relative paths the selected entries imply.  *)
(***************************************************************************)
RECURSIVE PreorderFrom(_, _, _)
\* the descendants of node, children from index k on, each with its path
PreorderFrom(node, path, k) ==
    IF k > Len(node.children) THEN <<>>
    ELSE LET child == node.children[k]
             childPath == Append(path, child.name)
         IN  <<[path |-> childPath, node |-> child]>>
             \o PreorderFrom(child, childPath, 1)
             \o PreorderFrom(node, path, k + 1)

Preorder(root) == PreorderFrom(root, <<>>, 1)

\* the nodes of the tree at most limit segments below the root, in pre-order
VisibleNodes(root, limit) ==
    SelectSeq(Preorder(root), LAMBDA e : ~IsSome(limit) \/ Len(e.path) <= Get(limit))

Range(f) == {f[k] : k \in DOMAIN f}

NodesAt(root, path) == {e.node : e \in {x \in Range(Preorder(root)) : x.path = path}}

IsPrefix(p, q) == Len(p) <= Len(q) /\ SubSeq(q, 1, Len(p)) = p

IsProperPrefix(p, q) == Len(p) < Len(q) /\ SubSeq(q, 1, Len(p)) = p

\* the items that lie strictly under the normalized directory path
StrictlyUnder(list, dir) ==
    SelectSeq(list, LAMBDA item :
        normalizePath(dir) = "" \/ StartsWith(item.path, normalizePath(dir) \o "/"))

\* the path segments of an item below the normalized directory path
RelativeSegments(item, dir) ==
    IF normalizePath(dir) = "" THEN Split(item.path, "/")
    ELSE Split(Substring(item.path, Len(normalizePath(dir)) + 1), "/")

Done == pc = "done"

DoneEnhanced == pc = "done" /\ call = "formatSubTree"

FilterActive == IsSome(options.fileExtFilter) /\ Len(Get(options.fileExtFilter)) > 0

\* a name ends with one of the extensions of the active filter
NameMatches(name) ==
    \E k \in 1..Len(Get(options.fileExtFilter)) :
        Len(Get(options.fileExtFilter)[k]) <= Len(name)
        /\ Substring(name, Len(name) - Len(Get(options.fileExtFilter)[k]))
             = Get(options.fileExtFilter)[k]

(***************************************************************************)
(* C1                                                                      *)
(***************************************************************************)
\* the selected items are all files directly under the directory path whose
\* names the active extension filter rejects
AllDroppedByFilter ==
    /\ call = "formatSubTree"
    /\ FilterActive
    /\ \A k \in 1..Len(StrictlyUnder(items, dirPath)) :
         LET item == StrictlyUnder(items, dirPath)[k]
         IN  /\ item.type = "blob"
             /\ Len(RelativeSegments(item, dirPath)) = 1
             /\ ~NameMatches(RelativeSegments(item, dirPath)[1])

\* C1: formatTree and formatSubTree return exactly "(empty directory)", with
\* no summary, whenever the entry list is empty or the tree built for the
\* normalized directory path has no children: no entry lies strictly under
\* the path (only the directory marker, or nothing, matches), or every
\* candidate was dropped by the extension filter; under every option
\* combination.
C1_EmptyDirectoryLiteral ==
    Done =>
        /\ (Len(items) = 0 \/ Len(tree.children) = 0) => result = EmptyDirectory
        /\ Len(StrictlyUnder(items, dirPath)) = 0 => result = EmptyDirectory
        /\ AllDroppedByFilter => result = EmptyDirectory

\* a call with a summary requested whose candidates were all dropped by the filter
C1_Witness ==
    /\ DoneEnhanced
    /\ Len(StrictlyUnder(items, dirPath)) > 0
    /\ AllDroppedByFilter
    /\ options.showStats # Some(FALSE)
    /\ Len(tree.children) = 0
    /\ result = EmptyDirectory

(***************************************************************************)
(* C2                                                                      *)
(***************************************************************************)
\* the relative paths that a selected item implies to be directories: the
\* proper ancestors of its path, and its own path when its type is tree
ImpliedDirectories(list, dir) ==
    UNION { LET segs == RelativeSegments(StrictlyUnder(list, dir)[k], dir)
            IN  {SubSeq(segs, 1, j) : j \in 1..(Len(segs) - 1)}
                \cup (IF StrictlyUnder(list, dir)[k].type = "tree" THEN {segs} ELSE {})
          : k \in 1..Len(StrictlyUnder(list, dir)) }

\* C2: directory wins, in both builders and for every order of the entries:
\* a path that some selected entry implies to be a directory (as a proper
\* ancestor, or by an entry of type tree for that exact path) has a directory
\* node in the finished tree, also when a blob entry with the same path was
\* processed first.
C2_DirectoryWins ==
    Done =>
        \A path \in ImpliedDirectories(items, dirPath) :
            /\ NodesAt(tree, path) # {}
            /\ \A n \in NodesAt(tree, path) : n.isDirectory

(***************************************************************************)
(* C3                                                                      *)
(***************************************************************************)
RECURSIVE ParseNat(_)
\* the number a string of decimal digits denotes
ParseNat(digits) ==
    IF digits = "" THEN 0
    ELSE 10 * ParseNat(SubSeq(digits, 1, Len(digits) - 1))
         + (CHOOSE d \in 0..9 : Digit[d + 1] = CharAt(digits, Len(digits)))

\* the comma-separated parts of the summary line, the label removed
SummaryParts(text) == Split(Substring(SummaryLine(text), Len(SummaryLabel)), ",")

\* the directory count and the file count the summary line states
SummaryDirs(text) == ParseNat(Split(SummaryParts(text)[1], " ")[1])

SummaryFiles(text) == ParseNat(Split(SummaryParts(text)[2], " ")[2])

\* the summary line has a "<size> total" part
SummaryHasTotal(text) ==
    Len(SummaryParts(text)) >= 3 /\ EndsWith(SummaryParts(text)[3], " total")

\* the selected file entries whose name the active filter accepts / rejects
MatchingBlobs ==
    SelectSeq(StrictlyUnder(items, dirPath), LAMBDA item :
        LET segs == RelativeSegments(item, dirPath)
        IN  item.type = "blob" /\ NameMatches(segs[Len(segs)]))

RejectedBlobs ==
    SelectSeq(StrictlyUnder(items, dirPath), LAMBDA item :
        LET segs == RelativeSegments(item, dirPath)
        IN  item.type = "blob" /\ ~NameMatches(segs[Len(segs)]))

\* the relative paths that the tree entries and the accepted file entries
\* imply to be directories
KeptDirectories ==
    ImpliedDirectories(
        SelectSeq(items, LAMBDA item :
            item.type = "tree" \/ \E k \in 1..Len(MatchingBlobs) : MatchingBlobs[k] = item),
        dirPath)

\* C3: with a non-empty fileExtFilter no file whose name ends with none of
\* the extensions (case-sensitive suffix) is in formatSubTree's listing or in
\* its file count and total size, at any depth; every file entry whose name
\* ends with a listed extension is kept; directory segments are never
\* filtered.
C3_ExtensionFilter ==
    (DoneEnhanced /\ FilterActive) =>
        /\ \A e \in Range(Preorder(tree)) : ~e.node.isDirectory => NameMatches(e.node.name)
        /\ LET body == ParsedBody(result)
           IN  \A k \in 1..Len(body) : ~body[k].isDirectory => NameMatches(body[k].name)
        /\ HasSummary(result) =>
             /\ SummaryFiles(result)
                  <= Cardinality({RelativeSegments(MatchingBlobs[k], dirPath) :
                                    k \in 1..Len(MatchingBlobs)})
             /\ (\A k \in 1..Len(MatchingBlobs) : SizeOrZero(MatchingBlobs[k].size) = 0)
                  => ~SummaryHasTotal(result)
        /\ \A k \in 1..Len(MatchingBlobs) :
             NodesAt(tree, RelativeSegments(MatchingBlobs[k], dirPath)) # {}
        /\ \A path \in KeptDirectories : NodesAt(tree, path) # {}

\* a filtered call that drops a nested file with a size, keeps another file
\* and a directory whose name has no listed extension, and prints a summary
C3_Witness ==
    /\ DoneEnhanced
    /\ FilterActive
    /\ HasSummary(result)
    /\ \E k \in 1..Len(RejectedBlobs) :
         /\ Len(RelativeSegments(RejectedBlobs[k], dirPath)) >= 2
         /\ SizeOrZero(RejectedBlobs[k].size) > 0
    /\ Len(MatchingBlobs) > 0
    /\ SummaryFiles(result) >= 1
    /\ \E e \in Range(Preorder(tree)) : e.node.isDirectory /\ ~NameMatches(e.node.name)

(***************************************************************************)
(* C4                                                                      *)
(***************************************************************************)
\* C4: with a non-empty fileExtFilter formatSubTree never has an empty
\* directory in its tree: every directory node has at least one file below
\* it, a directory with only filtered-out files being never inserted, so it
\* has no line and is not counted.
C4_NoEmptyDirectoryUnderFilter ==
    (DoneEnhanced /\ FilterActive) =>
        \A d \in Range(Preorder(tree)) :
            d.node.isDirectory =>
                \E f \in Range(Preorder(tree)) :
                    ~f.node.isDirectory /\ IsProperPrefix(d.path, f.path)

(***************************************************************************)
(* C5                                                                      *)
(***************************************************************************)
\* the body lines are, in order, the nodes of the tree within the depth
\* limit: same depth, name and directory mark
BodyMatchesVisible ==
    LET body == ParsedBody(result)
        visible == VisibleNodes(tree, options.maxDepth)
    IN  /\ Len(body) = Len(visible)
        /\ \A k \in 1..Len(body) :
             /\ body[k].depth = Len(visible[k].path)
             /\ body[k].name = visible[k].node.name
             /\ body[k].isDirectory = visible[k].node.isDirectory

\* C5: with maxDepth = N >= 1 no node deeper than N has an output line, every
\* directory at depth exactly N is listed with none of its descendants, and
\* the summary, when present, contains "(depth limited to N)".
C5_DepthLimit ==
    (DoneEnhanced /\ IsSome(options.maxDepth) /\ result # EmptyDirectory) =>
        /\ LET body == ParsedBody(result)
           IN  \A k \in 1..Len(body) : body[k].depth <= Get(options.maxDepth)
        /\ BodyMatchesVisible
        /\ HasSummary(result) =>
             EndsWith(SummaryLine(result),
                      "(depth limited to " \o NumToString(Get(options.maxDepth)) \o ")")

\* a depth-limited call with a summary whose tree has a directory with
\* children exactly at the limit
C5_Witness ==
    /\ DoneEnhanced
    /\ IsSome(options.maxDepth)
    /\ HasSummary(result)
    /\ \E e \in Range(Preorder(tree)) :
         /\ e.node.isDirectory
         /\ Len(e.path) = Get(options.maxDepth)
         /\ Len(e.node.children) > 0
         /\ \E k \in 1..Len(ParsedBody(result)) :
              /\ ParsedBody(result)[k].name = e.node.name
              /\ ParsedBody(result)[k].isDirectory
              /\ ParsedBody(result)[k].depth = Get(options.maxDepth)

(***************************************************************************)
(* C6                                                                      *)
(***************************************************************************)
RECURSIVE SumSizes(_)
SumSizes(entries) ==
    IF Len(entries) = 0 THEN 0
    ELSE SizeOrZero(Head(entries).node.size) + SumSizes(Tail(entries))

VisibleFiles == SelectSeq(VisibleNodes(tree, options.maxDepth), LAMBDA e : ~e.node.isDirectory)

VisibleDirs == SelectSeq(VisibleNodes(tree, options.maxDepth), LAMBDA e : e.node.isDirectory)

\* the summary line as the claim composes it from the counts of the tree
ExpectedSummary ==
    SummaryLabel
    \o NumToString(Len(VisibleDirs))
    \o (IF Len(VisibleDirs) = 1 THEN " directory" ELSE " directories")
    \o ", " \o NumToString(Len(VisibleFiles))
    \o (IF Len(VisibleFiles) = 1 THEN " file" ELSE " files")
    \o (IF SumSizes(VisibleFiles) > 0
        THEN ", " \o formatSize(SumSizes(VisibleFiles)) \o " total" ELSE "")
    \o (IF FilterActive
        THEN ", (filtered: " \o Join(Get(options.fileExtFilter), ", ") \o ")" ELSE "")
    \o (IF IsSome(options.maxDepth)
        THEN ", (depth limited to " \o NumToString(Get(options.maxDepth)) \o ")" ELSE "")

\* C6: formatSubTree appends a blank line and a summary line iff showStats is
\* not explicitly false and the tree is non-empty; the summary joins with
\* ", ", in this order, the directory count, the file count, the total size
\* iff it is positive, the filter iff a non-empty one was given, the depth
\* limit iff one was given; directory and file are singular exactly for 1.
C6_Summary ==
    DoneEnhanced =>
        /\ HasSummary(result) <=> (options.showStats # Some(FALSE) /\ Len(tree.children) > 0)
        /\ HasSummary(result) => SummaryLine(result) = ExpectedSummary
        /\ ~HasSummary(result) => \A k \in 1..Len(Lines(result)) : Lines(result)[k] # ""

\* a summary with every optional part, one directory and several files
C6_Witness ==
    /\ DoneEnhanced
    /\ HasSummary(result)
    /\ FilterActive
    /\ IsSome(options.maxDepth)
    /\ SumSizes(VisibleFiles) > 0
    /\ Len(VisibleDirs) = 1
    /\ Len(VisibleFiles) > 1

(***************************************************************************)
(* C7                                                                      *)
(***************************************************************************)
\* the size of the first selected entry with the given relative path
FirstEntrySize(path) ==
    LET under == StrictlyUnder(items, dirPath)
        at == {k \in 1..Len(under) : RelativeSegments(under[k], dirPath) = path}
    IN  under[CHOOSE k \in at : \A m \in at : k <= m].size

\* C7 as stated: with showSize every rendered file line, at the top level and
\* nested, carries " (" + humanSize(size) + ")", also for a file entry whose
\* size is absent.
C7_EveryFileLineHasSize ==
    (DoneEnhanced /\ options.showSize = Some(TRUE) /\ result # EmptyDirectory) =>
        /\ BodyMatchesVisible
        /\ LET body == ParsedBody(result)
               visible == VisibleNodes(tree, options.maxDepth)
           IN  \A k \in 1..Len(body) :
                 ~body[k].isDirectory =>
                    body[k].annotation =
                        " (" \o formatSize(SizeOrZero(FirstEntrySize(visible[k].path))) \o ")"

\* C7 amended: with showSize every rendered file line, at the top level and
\* nested, carries " (" + humanSize(size) + ")" when the entry that created
\* the node has a size, and is the bare name when that size is absent.
C7_FileLineSizeWhenPresent ==
    (DoneEnhanced /\ options.showSize = Some(TRUE) /\ result # EmptyDirectory) =>
        /\ BodyMatchesVisible
        /\ LET body == ParsedBody(result)
               visible == VisibleNodes(tree, options.maxDepth)
           IN  \A k \in 1..Len(body) :
                 ~body[k].isDirectory =>
                    LET size == FirstEntrySize(visible[k].path)
                    IN  body[k].annotation =
                            (IF IsSome(size) THEN " (" \o formatSize(Get(size)) \o ")" ELSE "")

\* a call with showSize that renders a nested file with a size, a nested file
\* without one, and a top-level file with a size
C7_Witness ==
    /\ DoneEnhanced
    /\ options.showSize = Some(TRUE)
    /\ \E j, k, m \in 1..Len(ParsedBody(result)) :
         /\ ~ParsedBody(result)[j].isDirectory
         /\ ParsedBody(result)[j].depth >= 2
         /\ ParsedBody(result)[j].annotation # ""
         /\ ~ParsedBody(result)[k].isDirectory
         /\ ParsedBody(result)[k].depth >= 2
         /\ ParsedBody(result)[k].annotation = ""
         /\ ~ParsedBody(result)[m].isDirectory
         /\ ParsedBody(result)[m].depth = 1
         /\ ParsedBody(result)[m].annotation # ""

(***************************************************************************)
(* C8                                                                      *)
(***************************************************************************)
\* the files below the directory at path that are within the depth limit
FilesBelow(visible, path) ==
    SelectSeq(visible, LAMBDA e : ~e.node.isDirectory /\ IsProperPrefix(path, e.path))

\* the suffix the claim gives a directory with these files below it
ExpectedDirAnnotation(files) ==
    IF Len(files) >= 1
    THEN " (" \o NumToString(Len(files))
         \o (IF Len(files) = 1 THEN " file" ELSE " files")
         \o ", " \o formatSize(SumSizes(files)) \o ")"
    ELSE ""

\* C8: with showSize a rendered directory line carries a suffix iff the
\* directory has at least one file descendant of depth <= maxDepth; the
\* suffix states that count (file for 1, files otherwise) and the
\* human-readable sum of those files' sizes, an absent size counting 0; a
\* directory at depth exactly maxDepth has no suffix.
C8_DirectoryAnnotation ==
    (DoneEnhanced /\ options.showSize = Some(TRUE) /\ result # EmptyDirectory) =>
        /\ BodyMatchesVisible
        /\ LET body == ParsedBody(result)
               visible == VisibleNodes(tree, options.maxDepth)
           IN  \A k \in 1..Len(body) :
                 body[k].isDirectory =>
                    LET files == FilesBelow(visible, visible[k].path)
                    IN  /\ body[k].annotation = ExpectedDirAnnotation(files)
                        /\ (body[k].annotation # "" <=> Len(files) >= 1)
                        /\ (IsSome(options.maxDepth) /\ body[k].depth = Get(options.maxDepth))
                              => body[k].annotation = ""

\* a call with showSize and a depth limit that renders a directory with an
\* annotation and, at the limit, a directory with children and no annotation
C8_Witness ==
    /\ DoneEnhanced
    /\ options.showSize = Some(TRUE)
    /\ IsSome(options.maxDepth)
    /\ BodyMatchesVisible
    /\ \E j, k \in 1..Len(ParsedBody(result)) :
         /\ ParsedBody(result)[j].isDirectory
         /\ ParsedBody(result)[j].annotation # ""
         /\ ParsedBody(result)[k].isDirectory
         /\ ParsedBody(result)[k].depth = Get(options.maxDepth)
         /\ Len(VisibleNodes(tree, options.maxDepth)[k].node.children) > 0
         /\ ParsedBody(result)[k].annotation = ""

(***************************************************************************)
(* C9                                                                      *)
(***************************************************************************)
SpecExample ==
    <<Tree("src"), Blob("src/index.ts", Some(100)), Blob("src/utils.ts", Some(200)),
      Blob("README.md", Some(50))>>

SpecExampleCall ==
    /\ DoneEnhanced
    /\ items = SpecExample
    /\ dirPath = ""
    /\ options.showSize = Some(TRUE)
    /\ options.maxDepth = None
    /\ ~FilterActive

\* C9 as stated: for the specification's example entries, an empty directory
\* path and showSize, formatSubTree prints a line "src/ (2 files, 3.0KB)" and
\* a line "README.md (50B)".
C9_ExampleAsStated ==
    SpecExampleCall =>
        /\ \E k \in 1..Len(BodyLines(result)) : BodyLines(result)[k] = "src/ (2 files, 3.0KB)"
        /\ \E k \in 1..Len(BodyLines(result)) : BodyLines(result)[k] = "README.md (50B)"

\* C9 amended: for the same call formatSubTree prints a line
\* "src/ (2 files, 300B)" and a line "README.md (50B)".
C9_Example ==
    SpecExampleCall =>
        /\ \E k \in 1..Len(BodyLines(result)) : BodyLines(result)[k] = "src/ (2 files, 300B)"
        /\ \E k \in 1..Len(BodyLines(result)) : BodyLines(result)[k] = "README.md (50B)"

C9_Witness == SpecExampleCall /\ Len(BodyLines(result)) = 4

(***************************************************************************)
(* C10                                                                     *)
(***************************************************************************)
DoneSize == pc = "done" /\ call = "formatSize"

SizeUnit == IF bytes < MB THEN KB ELSE IF bytes < GB THEN MB ELSE GB

SizeSuffix == IF bytes < MB THEN "KB" ELSE IF bytes < GB THEN "MB" ELSE "GB"

\* the smallest remainder r with 10 * r >= t * unit - unit / 2, the product
\* taken in two parts to stay within the integers
TenthLowerBound(t, unit) ==
    ((2 * t - 1) * ((unit \div 2) \div 10))
    + (((2 * t - 1) * ((unit \div 2) % 10) + 9) \div 10)

\* text is "<i>.<d>" and i + d / 10 is the decimal with one digit nearest to
\* bytes / unit, a tie going up
IsOneDecimalOf(text, unit) ==
    LET parts == Split(text, ".")
    IN  /\ Len(parts) = 2
        /\ Len(parts[1]) >= 1
        /\ Len(parts[2]) = 1
        /\ \A k \in 1..Len(text) : CharAt(text, k) \in {"."} \cup Range(Digit)
        /\ (Len(parts[1]) > 1 => CharAt(parts[1], 1) # "0")
        /\ LET t == 10 * ParseNat(parts[1]) + ParseNat(parts[2]) - 10 * (bytes \div unit)
           IN  /\ t \in 0..10
               /\ bytes % unit >= TenthLowerBound(t, unit)
               /\ bytes % unit < TenthLowerBound(t + 1, unit)

\* C10: formatSize picks its unit by fixed thresholds: 0 gives "0B", below
\* 1024 the count followed by "B", below 1024^2 one-decimal KB, below 1024^3
\* one-decimal MB, otherwise one-decimal GB; 1024 gives "1.0KB", 3072 gives
\* "3.0KB" and 5242880 gives "5.0MB".
C10_FormatSizeThresholds ==
    DoneSize =>
        /\ (bytes = 0 => result = "0B")
        /\ (bytes < KB =>
              /\ EndsWith(result, "B")
              /\ Len(result) >= 2
              /\ \A k \in 1..(Len(result) - 1) : CharAt(result, k) \in Range(Digit)
              /\ (Len(result) > 2 => CharAt(result, 1) # "0")
              /\ ParseNat(SubSeq(result, 1, Len(result) - 1)) = bytes)
        /\ (bytes >= KB =>
              /\ EndsWith(result, SizeSuffix)
              /\ Len(result) > 2
              /\ IsOneDecimalOf(SubSeq(result, 1, Len(result) - 2), SizeUnit))
        /\ (bytes = 1024 => result = "1.0KB")
        /\ (bytes = 3072 => result = "3.0KB")
        /\ (bytes = 5242880 => result = "5.0MB")

C10_Witness == DoneSize /\ bytes = 5242880 /\ result = "5.0MB"

(***************************************************************************)
(* C11                                                                     *)
(***************************************************************************)
DonePlain == pc = "done" /\ call = "formatTree"

\* the node at path is the last of its parent's children
IsLastChild(root, path) ==
    LET parent == IF Len(path) = 1 THEN root
                  ELSE CHOOSE n \in NodesAt(root, SubSeq(path, 1, Len(path) - 1)) : TRUE
    IN  parent.children[Len(parent.children)].name = path[Len(path)]

\* the line the claim gives the node e of the tree
ExpectedPlainLine(root, e) ==
    LET d == Len(e.path)
        display == IF e.node.isDirectory THEN e.node.name \o "/" ELSE e.node.name
    IN  IF d = 1 THEN display
        ELSE Join([i \in 1..(d - 2) |->
                     IF IsLastChild(root, SubSeq(e.path, 1, i + 1))
                     THEN PrefixLast ELSE PrefixMiddle], "")
             \o (IF IsLastChild(root, e.path) THEN ConnectorLast ELSE ConnectorMiddle)
             \o display

\* C11: formatTree prints every node of its tree on one line, a parent right
\* before its subtree: a top-level node bare; a node at depth d >= 2 with,
\* for each ancestor at depth 2..d-1, the bar glyph if that ancestor is not
\* its parent's last child and four spaces if it is, then the corner
\* connector if the node is its parent's last child and the tee connector
\* otherwise, then the name, with "/" for a directory; no size annotation
\* and no summary line.
C11_PlainRendering ==
    (DonePlain /\ result # EmptyDirectory) =>
        LET nodes == Preorder(tree)
            lines == Lines(result)
        IN  /\ Len(lines) = Len(nodes)
            /\ \A k \in 1..Len(nodes) : lines[k] = ExpectedPlainLine(tree, nodes[k])
            /\ \A k \in 1..Len(lines) :
                 /\ LineAnnotation(lines[k]) = ""
                 /\ ~StartsWith(lines[k], SummaryLabel)
                 /\ lines[k] # ""

\* a plain rendering with a node at depth 3 below a directory that is not a
\* last child and one below a directory that is
C11_Witness ==
    /\ DonePlain
    /\ \E e, f \in Range(Preorder(tree)) :
         /\ Len(e.path) = 3
         /\ ~IsLastChild(tree, SubSeq(e.path, 1, 2))
         /\ Len(f.path) = 3
         /\ IsLastChild(tree, SubSeq(f.path, 1, 2))
         /\ \E k \in 1..Len(Lines(result)) :
              Lines(result)[k] = PrefixMiddle \o ConnectorLast \o e.node.name

(***************************************************************************)
(* C12                                                                     *)
(***************************************************************************)
\* the children are in two groups, the directories first or last, and the
\* names of each group ascend strictly in the order of localeCompare
GroupedAndOrdered(children, directoriesFirst) ==
    \A j, k \in 1..Len(children) :
        j < k =>
            IF children[j].isDirectory = children[k].isDirectory
            THEN LocaleCompare(children[j].name, children[k].name) < 0
            ELSE children[j].isDirectory = directoriesFirst

\* C12: at every level of the finished tree the children are grouped and
\* ordered: files before directories in the plain builder, directories
\* before files in the enhanced builder, names strictly ascending within a
\* group; for every entry list and insertion order, also when a node was
\* inserted as a file and promoted to a directory later.
C12_ChildrenOrdered ==
    (Done /\ tree # NoTree) =>
        /\ GroupedAndOrdered(tree.children, call = "formatSubTree")
        /\ \A e \in Range(Preorder(tree)) :
             GroupedAndOrdered(e.node.children, call = "formatSubTree")

\* the entry at index k is a file entry and a later entry lies below its path
PromotedLater(list, k) ==
    /\ list[k].type = "blob"
    /\ \E m \in (k + 1)..Len(list) : StartsWith(list[m].path, list[k].path \o "/")

\* a plain tree with a level that holds a file before a directory which an
\* earlier file entry had created
C12_Witness ==
    /\ DonePlain
    /\ dirPath = ""
    /\ \E k \in 1..Len(items) :
         /\ PromotedLater(items, k)
         /\ \E e \in Range(Preorder(tree)) :
              /\ Len(e.node.children) >= 2
              /\ ~e.node.children[1].isDirectory
              /\ e.node.children[2].isDirectory
              /\ Append(e.path, e.node.children[2].name) = Split(items[k].path, "/")

(***************************************************************************)
(* C13                                                                     *)
(***************************************************************************)
RECURSIVE PathOfLine(_, _)
\* the path of the node of body line k: the names of the nearest earlier
\* lines of each smaller depth, then its own
PathOfLine(body, k) ==
    IF body[k].depth = 1 THEN <<body[k].name>>
    ELSE LET parents == {j \in 1..(k - 1) : body[j].depth = body[k].depth - 1}
             parent == CHOOSE j \in parents : \A m \in parents : m <= j
         IN  Append(PathOfLine(body, parent), body[k].name)

\* the nodes a returned string shows: path (so name and parent) and mark
RenderedNodes(text) ==
    LET body == ParsedBody(text)
    IN  {[path |-> PathOfLine(body, k), isDirectory |-> body[k].isDirectory] :
            k \in 1..Len(body)}

PlainLikeOptions ==
    /\ options.showStats = Some(FALSE)
    /\ options.showSize # Some(TRUE)
    /\ options.maxDepth = None
    /\ options.fileExtFilter = None

\* C13: for a non-empty entry list and any directory path, formatSubTree
\* with showStats false, showSize false, no maxDepth and no fileExtFilter
\* shows the same nodes as formatTree: the same names, each with the same
\* directory mark and the same parent; only the order of siblings may differ.
C13_SameNodes ==
    (DoneEnhanced /\ PlainLikeOptions /\ Len(items) > 0) =>
        LET plain == formatTree(items, dirPath)
        IN  /\ RenderedNodes(result) = RenderedNodes(plain)
            /\ Len(BodyLines(result)) = Len(BodyLines(plain))
            /\ Cardinality(RenderedNodes(result)) = Len(BodyLines(result))
            /\ (result = EmptyDirectory <=> plain = EmptyDirectory)

\* a call whose two renderings differ as strings, with a directory that a
\* file entry had created first, three levels deep
C13_Witness ==
    /\ DoneEnhanced
    /\ PlainLikeOptions
    /\ result # formatTree(items, dirPath)
    /\ \E k \in 1..Len(items) : PromotedLater(items, k)
    /\ \E n \in RenderedNodes(result) : Len(n.path) = 3

IsBelow(item, F) ==
    /\ Len(item.path) > Len(F)
    /\ SubSeq(item.path, 1, Len(F) + 1) = F \o "/"

\* the non-empty prefixes of a sequence of segments
Prefixes(segs) == {SubSeq(segs, 1, j) : j \in 1..Len(segs)}

\* the node paths the claim gives the tree for the directory path F
ExpectedNodePaths(list, F) ==
    IF F = ""
    THEN UNION {Prefixes(Split(list[k].path, "/")) : k \in 1..Len(list)}
    ELSE UNION {Prefixes(Split(SubSeq(list[k].path, Len(F) + 2, Len(list[k].path)), "/")) :
                    k \in {m \in 1..Len(list) : IsBelow(list[m], F)}}

\* C15: with a non-empty normalized directory path F both builders select
\* the entries whose path is F or starts with F + "/"; the entry equal to F
\* becomes no node; an entry that only shares a string prefix with F is not
\* selected; a selected entry is inserted under its path without the
\* F + "/" prefix.  With an empty directory path every entry is selected
\* with its full path.
C15_Selection ==
    (Done /\ Len(items) > 0 /\ ~FilterActive) =>
        {e.path : e \in Range(Preorder(tree))} = ExpectedNodePaths(items, normalizePath(dirPath))

\* a call with a non-empty directory path on a list with the directory's
\* own entry, an entry below it, and an entry that only shares the prefix
C15_Witness ==
    /\ Done
    /\ ~FilterActive
    /\ normalizePath(dirPath) = "a"
    /\ \E j, k, m \in 1..Len(items) :
         /\ items[j].path = "a"
         /\ IsBelow(items[k], "a")
         /\ StartsWith(items[m].path, "a") /\ ~IsBelow(items[m], "a") /\ items[m].path # "a"
    /\ Len(tree.children) > 0

(***************************************************************************)
(* C16                                                                     *)
(***************************************************************************)
DonePath == pc = "done" /\ call = "normalizePath"

IsSlash(c) == c = "/" \/ c = "\\"

\* the maximal runs of characters of text that are neither kind of slash, in
\* order
SlashFreeSegments(text) ==
    LET starts == {k \in 1..Len(text) :
                     ~IsSlash(CharAt(text, k)) /\ (k = 1 \/ IsSlash(CharAt(text, k - 1)))}
        ends == {k \in 1..Len(text) :
                     ~IsSlash(CharAt(text, k)) /\ (k = Len(text) \/ IsSlash(CharAt(text, k + 1)))}
        nth(set, n) == CHOOSE k \in set : Cardinality({m \in set : m < k}) = n - 1
    IN  [n \in 1..Cardinality(starts) |-> SubSeq(text, nth(starts, n), nth(ends, n))]

\* C16: normalizePath is defined on every string; its result has no
\* backslash, no "/" at either end and no two "/" in a row; the slash-free
\* segments of the argument are kept in order; the empty string and a string
\* of slashes of either kind give the empty string; so normalizing a result
\* again changes nothing.
C16_NormalizePath ==
    DonePath =>
        /\ \A k \in 1..Len(result) : CharAt(result, k) # "\\"
        /\ ~StartsWith(result, "/")
        /\ ~EndsWith(result, "/")
        /\ \A k \in 1..(Len(result) - 1) : SubSeq(result, k, k + 1) # "//"
        /\ SlashFreeSegments(result) = SlashFreeSegments(dirPath)
        /\ (\A k \in 1..Len(dirPath) : IsSlash(CharAt(dirPath, k))) => result = ""
        /\ normalizePath(result) = result
        /\ normalizePath(normalizePath(dirPath)) = normalizePath(dirPath)

\* a call whose argument has both kinds of slash, slashes at both ends and
\* slashes in a row between two segments
C16_Witness ==
    /\ DonePath
    /\ dirPath = "\\\\srv//share\\/dir/\\"
    /\ result = "srv/share/dir"

(***************************************************************************)
(* C17                                                                     *)
(***************************************************************************)
DoneIdentifier == pc = "done" /\ call = "parseRepoIdentifier"

SlashPositions(text) == {k \in 1..Len(text) : CharAt(text, k) = "/"}

\* the text has exactly two "/", none of them at an end and not adjacent
ThreeNonEmptyParts(text) ==
    /\ Cardinality(SlashPositions(text)) = 2
    /\ \A k \in SlashPositions(text) :
         k # 1 /\ k # Len(text) /\ (k + 1) \notin SlashPositions(text)

\* C17: parseRepoIdentifier returns {owner, repo, branch} iff its argument,
\* split at "/", has exactly three parts, all non-empty, and the fields are
\* these parts in order; with another number of parts (the empty string
\* too) it throws the 'Invalid repoIdentifier format' error; with three
\* parts of which one is empty it throws the 'must not be empty' error.
C17_ParseRepoIdentifier ==
    DoneIdentifier =>
        /\ result.kind = "return" <=> ThreeNonEmptyParts(repoIdentifier)
        /\ result.kind = "return" =>
             /\ DOMAIN result.value = {"owner", "repo", "branch"}
             /\ result.value.owner \o "/" \o result.value.repo \o "/" \o result.value.branch
                  = repoIdentifier
             /\ SlashPositions(result.value.owner) = {}
             /\ SlashPositions(result.value.repo) = {}
             /\ SlashPositions(result.value.branch) = {}
        /\ Cardinality(SlashPositions(repoIdentifier)) # 2 =>
             (result.kind = "throw" /\ result.message = InvalidFormatMessage)
        /\ (Cardinality(SlashPositions(repoIdentifier)) = 2
            /\ ~ThreeNonEmptyParts(repoIdentifier)) =>
             (result.kind = "throw" /\ result.message = EmptyPartMessage)

\* a call that returns the three parts of an argument
C17_Witness ==
    /\ DoneIdentifier
    /\ repoIdentifier = "my-org/my_repo/feature-branch"
    /\ result = Return([owner |-> "my-org", repo |-> "my_repo", branch |-> "feature-branch"])

(***************************************************************************)
(* C18                                                                     *)
(***************************************************************************)
DoneArgs == pc = "done" /\ call = "parseArgs"

FlagPositions == {k \in 1..Len(args) : args[k] = "--repoIdentifier"}

FirstFlag == CHOOSE k \in FlagPositions : \A j \in FlagPositions : k <= j

\* C18: parseArgs returns undefined when no argument is '--repoIdentifier';
\* otherwise it takes the argument after the first '--repoIdentifier',
\* throws '--repoIdentifier flag requires a value' when that argument is
\* missing, empty or starts with '--', and in every other case returns or
\* throws what parseRepoIdentifier does on it, whatever other flags stand
\* before or after.
C18_ParseArgs ==
    DoneArgs =>
        IF FlagPositions = {} THEN result = Return(None)
        ELSE IF \/ FirstFlag = Len(args)
                \/ args[FirstFlag + 1] = ""
                \/ SubSeq(args[FirstFlag + 1], 1, 2) = "--"
        THEN result = Throw(MissingValueMessage)
        ELSE LET parsed == parseRepoIdentifier(args[FirstFlag + 1])
             IN  /\ result.kind = parsed.kind
                 /\ parsed.kind = "return" => result.value = Some(parsed.value)
                 /\ parsed.kind = "throw" => result.message = parsed.message

\* a call with two '--repoIdentifier' flags whose first value is not valid
\* and whose second is
C18_Witness ==
    /\ DoneArgs
    /\ args = <<"--repoIdentifier", "o/r", "--repoIdentifier", "o/r/b">>
    /\ result = Throw(InvalidFormatMessage)

(***************************************************************************)
(* C19: in HTTP mode the first listen is on the specified port, an         *)
(* EADDRINUSE error at port p is followed by a listen on port p + 1, and   *)
(* the number of listen attempts never exceeds 10 (maxAttempts).           *)
(***************************************************************************)
C19_AtMostTenAttempts ==
    /\ tried # <<>> => tried[1] = initialPort
    /\ \A k \in 1..(Len(tried) - 1) : tried[k + 1] = tried[k] + 1
    /\ Len(tried) <= maxAttempts

(***************************************************************************)
(* C20: every POST to /mcp has a server instance and a transport of its    *)
(* own, no instance or transport is used by two requests, the close of a   *)
(* request's response closes exactly that request's transport and server,  *)
(* and every other request is answered 404 and creates no instance.        *)
(***************************************************************************)
IsMcpPost(request) == request.method = "POST" /\ pathnameOf(request.url) = Some("/mcp")

C20_FreshPerRequest ==
    /\ \A r \in 1..Len(requests) :
         IF IsMcpPost(requests[r])
         THEN /\ requests[r].server \in 1..Len(servers)
              /\ requests[r].transport \in 1..Len(transports)
         ELSE /\ requests[r].status = 404
              /\ requests[r].server = 0
              /\ requests[r].transport = 0
    /\ \A r, q \in 1..Len(requests) :
         r # q =>
           /\ requests[r].server # 0 => requests[r].server # requests[q].server
           /\ requests[r].transport # 0 => requests[r].transport # requests[q].transport
    /\ \A i \in 1..Len(servers) :
         /\ servers[i].closed <=>
              \E r \in 1..Len(requests) : requests[r].server = i /\ requests[r].closed
         /\ servers[i].transport # 0 =>
              \E r \in 1..Len(requests) :
                requests[r].server = i /\ requests[r].transport = servers[i].transport
    /\ \A t \in 1..Len(transports) :
         transports[t].closed <=>
           \E r \in 1..Len(requests) : requests[r].transport = t /\ requests[r].closed

(***************************************************************************)
(* C21: a handler of fetch-file, fetch-subdir-tree or fetch-sub-tree calls *)
(* the fetcher exactly once: with the repoIdentifier's owner, repo and     *)
(* branch when the tool was created with one, whatever the input holds;    *)
(* otherwise with the input's ownerName and repoName and the input's       *)
(* branchName, or 'main' when branchName is absent or empty.  The path is  *)
(* passed unchanged.                                                       *)
(***************************************************************************)
HandlerStarted == call = "handler" /\ tool \in FetchTools /\ pc \in {"fetching", "done"}

C21_FetcherArguments ==
    HandlerStarted =>
      /\ Len(serviceCalls) = 1
      /\ LET c == serviceCalls[1]
         IN  /\ c.method = (IF tool = "fetch-file" THEN "fetchFileContent"
                            ELSE "fetchDirectoryTree")
             /\ c.path = input.path
             /\ IF toolRepo # None
                THEN /\ c.owner = Some(toolRepo[1].owner)
                     /\ c.repo = Some(toolRepo[1].repo)
                     /\ c.branch = Some(toolRepo[1].branch)
                ELSE /\ c.owner = input.ownerName
                     /\ c.repo = input.repoName
                     /\ c.branch = (IF input.branchName \in {None, Some("")}
                                    THEN Some("main") ELSE input.branchName)

\* a tool created with a repoIdentifier was called with an input that names
\* another owner and branch, and the handler has settled
C21_Witness ==
    /\ HandlerStarted
    /\ pc = "done"
    /\ toolRepo = Some([owner |-> "facebook", repo |-> "react", branch |-> "canary"])
    /\ input.ownerName = Some("owner")
    /\ input.branchName = Some("develop")
    /\ serviceCalls[1].branch = Some("canary")

(***************************************************************************)
(* C22: when the upstream response is not ok, the fetcher fails with       *)
(* 'Failed to fetch file: <status> <statusText>' or 'Failed to fetch       *)
(* directory tree: <status> <statusText>'; when fetch rejects, it fails    *)
(* with that error.  The handler then rejects with the same error after a  *)
(* single fetch attempt and produces no content.                           *)
(***************************************************************************)
UpstreamFailed == upstream.kind = "reject" \/ upstream.status < 200 \/ upstream.status > 299

ExpectedFailure ==
    IF upstream.kind = "reject" THEN upstream.error
    ELSE (IF tool = "fetch-file" THEN "Failed to fetch file: "
          ELSE "Failed to fetch directory tree: ")
         \o NumToString(upstream.status) \o " " \o upstream.statusText

C22_FailuresSurface ==
    (HandlerStarted /\ UpstreamFailed) =>
      /\ Len(fetchCalls) = 1
      /\ Len(serviceCalls) = 1
      /\ fetcherSettled(IF tool = "fetch-file" THEN "file" ELSE "directory tree", upstream)
           = Throw(ExpectedFailure)
      /\ pc = "fetching" => outcome = <<>>
      /\ pc = "done" => outcome = [kind |-> "rejected", error |-> ExpectedFailure]

\* fetch-subdir-tree has rejected with the message for a 404 response
C22_Witness ==
    /\ HandlerStarted
    /\ pc = "done"
    /\ tool = "fetch-subdir-tree"
    /\ upstream.kind = "response"
    /\ upstream.status = 404
    /\ outcome = [kind |-> "rejected", error |-> "Failed to fetch directory tree: 404 Not Found"]

(***************************************************************************)
(* C23: the edit_image handler never rejects.  When neither 'path' nor     *)
(* 'image_base64' is given, or both are, or 'image_base64' is given        *)
(* without 'mime_type', it returns an isError result whose text starts     *)
(* with 'Error editing image: ' and editImage is not called.  Otherwise    *)
(* editImage is called once, with output_path if given, else the input     *)
(* path when 'path' was used, else undefined; an error it throws is        *)
(* returned as an isError result.                                          *)
(***************************************************************************)
EditStarted == call = "handler" /\ tool = "edit_image" /\ pc \in {"editing", "done"}

IsErrorResult(o) ==
    /\ o.kind = "resolved"
    /\ "isError" \in DOMAIN o
    /\ o.isError
    /\ Len(o.content) = 1
    /\ StartsWith(o.content[1].text, "Error editing image: ")

\* the claim, for a reading of "given" that says which of path,
\* image_base64, mime_type and output_path the input gives, and for the
\* output path expected when none is given with image_base64
EditContract(hasPath, hasBase64, hasMime, hasOutput, noOutput) ==
    /\ pc = "done" => outcome.kind = "resolved"
    /\ IF (~hasPath /\ ~hasBase64) \/ (hasPath /\ hasBase64) \/ (hasBase64 /\ ~hasMime)
       THEN /\ pc = "done"
            /\ IsErrorResult(outcome)
            /\ serviceCalls = <<>>
       ELSE /\ Len(serviceCalls) = 1
            /\ serviceCalls[1].method = "editImage"
            /\ serviceCalls[1].outputPath =
                 (IF hasOutput THEN input.output_path
                  ELSE IF hasPath THEN input.path ELSE noOutput)
            /\ pc = "done" =>
                 (IsErrorResult(outcome) <=> upstream.kind = "throw")

\* as stated, "given" read as present in the input
C23_EditImageAsStated ==
    EditStarted =>
      EditContract(IsSome(input.path), IsSome(input.image_base64), IsSome(input.mime_type),
                   IsSome(input.output_path), None)

\* "given" read as present and not empty; with image_base64 and no such
\* output_path, editImage receives output_path as it came, absent or empty
C23_EditImage ==
    EditStarted =>
      EditContract(Truthy(input.path), Truthy(input.image_base64), Truthy(input.mime_type),
                   Truthy(input.output_path), input.output_path)

\* image_base64 with mime_type and no output_path: editImage was called
\* with an undefined output path and threw, and the handler returned the
\* error
C23_Witness ==
    /\ EditStarted
    /\ pc = "done"
    /\ input.path = None
    /\ input.image_base64 = Some("aGVsbG8=")
    /\ input.mime_type = Some("image/png")
    /\ input.output_path = None
    /\ serviceCalls[1].outputPath = None
    /\ upstream.kind = "throw"
    /\ outcome.content[1].text = "Error editing image: quota exceeded"

(***************************************************************************)
(* C24: the statistics count exactly the nodes of the built tree whose     *)
(* depth is at most maxDepth, all nodes when maxDepth is absent: totalDirs *)
(* the directories among them, totalFiles the files, totalSize the sum of  *)
(* those files' sizes with an absent size as 0.  An empty tree gives zero  *)
(* counts.                                                                 *)
(***************************************************************************)
\* the nodes that the claim counts, by their depth field
WithinDepth(root, limit) ==
    SelectSeq(Preorder(root), LAMBDA e : ~IsSome(limit) \/ e.node.depth <= Get(limit))

RECURSIVE SizeSum(_)
SizeSum(entries) ==
    IF Len(entries) = 0 THEN 0
    ELSE (IF Head(entries).node.isDirectory \/ Head(entries).node.size = None THEN 0
          ELSE Head(entries).node.size[1])
         + SizeSum(Tail(entries))

C24_StatsCountWithinDepth ==
    (DoneEnhanced /\ tree # NoTree) =>
      LET stats == calculateStats(tree, options, InitialStats)
          counted == WithinDepth(tree, options.maxDepth)
      IN  /\ stats.totalDirs = Len(SelectSeq(counted, LAMBDA e : e.node.isDirectory))
          /\ stats.totalFiles = Len(SelectSeq(counted, LAMBDA e : ~e.node.isDirectory))
          /\ stats.totalSize = SizeSum(counted)
          /\ Len(tree.children) = 0 =>
               stats.totalDirs = 0 /\ stats.totalFiles = 0 /\ stats.totalSize = 0

\* a depth limit below which a file with a size lies, above which a file
\* without a size and two directories are counted
C24_Witness ==
    /\ DoneEnhanced
    /\ tree # NoTree
    /\ IsSome(options.maxDepth)
    /\ LET all == Preorder(tree)
           counted == WithinDepth(tree, options.maxDepth)
       IN  /\ \E k \in 1..Len(all) :
                /\ all[k].node.depth > Get(options.maxDepth)
                /\ ~all[k].node.isDirectory
                /\ all[k].node.size # None
           /\ \E k \in 1..Len(counted) :
                ~counted[k].node.isDirectory /\ counted[k].node.size = None
           /\ calculateStats(tree, options, InitialStats).totalDirs = 2

(***************************************************************************)
(* C25: after each insertion, in both builders, the children of the root   *)
(* and of every node hold at most one node per name: shared segments       *)
(* reuse the existing nodes, also when a path occurs more than once.       *)
(***************************************************************************)
Building == call \in {"buildEnhancedTree", "buildTree"}

UniqueNames(children) ==
    \A i, j \in 1..Len(children) : children[i].name = children[j].name => i = j

\* the step-wise construction ends in the tree that the builder returns
BuildAgrees ==
    (Building /\ pc = "done") =>
      tree = (IF call = "buildEnhancedTree" THEN buildEnhancedTree(items, dirPath, options)
              ELSE buildTree(items, dirPath))

C25_UniqueSiblingNames ==
    Building =>
      LET nodes == Preorder(tree)
      IN  /\ UniqueNames(tree.children)
          /\ \A k \in 1..Len(nodes) : UniqueNames(nodes[k].node.children)
          /\ \A i, j \in 1..Len(nodes) : nodes[i].path = nodes[j].path => i = j

\* the same path was inserted twice and shares its first segment with
\* itself: one node per segment
C25_Witness ==
    /\ Building
    /\ inserted = 2
    /\ items = <<Blob("a/b/c.ts", Some(600)), Blob("a/b/c.ts", Some(600))>>
    /\ dirPath = ""
    /\ Len(Preorder(tree)) = 3

(***************************************************************************)
(* C26: across the insertions that build a tree, in both builders, a       *)
(* node's isDirectory is never set back from true to false; in the         *)
(* enhanced builder a node's depth never changes and is the number of      *)
(* path segments from the filter root to the node.                         *)
(***************************************************************************)
DepthIsDistance ==
    (Building /\ call = "buildEnhancedTree") =>
      LET nodes == Preorder(tree)
      IN  \A k \in 1..Len(nodes) : nodes[k].node.depth = Len(nodes[k].path)

NeverDemoted ==
    Building =>
      LET before == Preorder(tree)
          after == Preorder(tree')
      IN  \A i \in 1..Len(before) :
            \E j \in 1..Len(after) :
              /\ after[j].path = before[i].path
              /\ before[i].node.isDirectory => after[j].node.isDirectory
              /\ call = "buildEnhancedTree" => after[j].node.depth = before[i].node.depth

C26_MonotoneFlagFixedDepth == [][NeverDemoted]_vars /\ []DepthIsDistance

\* the file a was promoted when a/b/c.ts was inserted, and the nodes below
\* it have depths 2 and 3
C26_Witness ==
    /\ Building
    /\ call = "buildEnhancedTree"
    /\ inserted = 2
    /\ items = <<Blob("a", None), Blob("a/b/c.ts", Some(600))>>
    /\ dirPath = ""
    /\ \A n \in NodesAt(tree, <<"a">>) : n.isDirectory /\ n.depth = 1
    /\ \E n \in NodesAt(tree, <<"a", "b", "c.ts">>) : n.depth = 3

(***************************************************************************)
(* C27: for an entry list in which no two entries have the same path, the  *)
(* output of formatTree and of formatSubTree is the same for every         *)
(* permutation of the list, and so is the built tree, each node's          *)
(* directory flag and size included.                                       *)
(***************************************************************************)
\* longest entry list whose permutations are all tried
MaxPermuted == 4

DistinctPaths(list) == \A i, j \in 1..Len(list) : list[i].path = list[j].path => i = j

\* the runs of the call of this state on every permutation of its items
PermutedRuns ==
    { LET permuted == [k \in 1..Len(items) |-> items[p[k]]]
      IN  IF call = "formatTree" THEN formatTreeRun(permuted, dirPath)
          ELSE formatSubTreeRun(permuted, dirPath, options) :
        p \in Permutations(1..Len(items)) }

Permutable == Done /\ call \in {"formatTree", "formatSubTree"}
              /\ Len(items) <= MaxPermuted /\ DistinctPaths(items)

RECURSIVE WithoutDirectorySizes(_)
\* the tree with the size field of its directory nodes left out of account
WithoutDirectorySizes(node) ==
    LET below == [k \in 1..Len(node.children) |-> WithoutDirectorySizes(node.children[k])]
    IN  IF "size" \in DOMAIN node /\ node.isDirectory
        THEN [node EXCEPT !.children = below, !.size = None]
        ELSE [node EXCEPT !.children = below]

\* as stated: the same output and the same tree for every permutation
C27_OrderIndependentAsStated ==
    Permutable => \A run \in PermutedRuns : run.result = result /\ run.tree = tree

\* the same output for every permutation, and the same tree but for the
\* size field of directory nodes
C27_OrderIndependent ==
    Permutable =>
      \A run \in PermutedRuns :
        /\ run.result = result
        /\ WithoutDirectorySizes(run.tree) = WithoutDirectorySizes(tree)

\* three entries with different paths, one of them a file that a later
\* entry turns into a directory: some permutation builds another tree
C27_Witness ==
    /\ Permutable
    /\ call = "formatSubTree"
    /\ items = <<Blob("a/b", Some(600)), Blob("a/b/c.ts", Some(600)), Blob("a/d.md", None)>>
    /\ options.showSize = Some(TRUE)
    /\ dirPath = ""
    /\ \E run \in PermutedRuns : run.tree # tree

(***************************************************************************)
(* C28: for maxDepth absent or at least 1, the summary of a formatSubTree  *)
(* call agrees with the body of the same call: totalFiles is the number of *)
(* file lines and totalDirs the number of directory lines.                 *)
(***************************************************************************)
C28_SummaryAgreesWithBody ==
    (DoneEnhanced /\ HasSummary(result)) =>
      LET body == ParsedBody(result)
      IN  /\ SummaryFiles(result) = Cardinality({k \in 1..Len(body) : ~body[k].isDirectory})
          /\ SummaryDirs(result) = Cardinality({k \in 1..Len(body) : body[k].isDirectory})

\* a depth-limited, filtered call whose tree has nodes below the limit and
\* whose body has both directory and file lines
C28_Witness ==
    /\ DoneEnhanced
    /\ HasSummary(result)
    /\ options.maxDepth = Some(2)
    /\ FilterActive
    /\ Len(Preorder(tree)) > Len(ParsedBody(result))
    /\ SummaryFiles(result) >= 1
    /\ SummaryDirs(result) >= 2

(***************************************************************************)
(* C29: with showSize false, every body line that formatSubTree renders    *)
(* with maxDepth = N >= 1 is rendered, in the same relative order, with    *)
(* maxDepth = N + 1.  When maxDepth is at least the depth of the deepest   *)
(* node, the body and totalFiles, totalDirs and totalSize are those of     *)
(* the call without maxDepth, and the outputs differ only in the "(depth   *)
(* limited to N)" part of the summary.                                     *)
(***************************************************************************)
RECURSIVE IsSubsequence(_, _)
IsSubsequence(a, b) ==
    IF Len(a) = 0 THEN TRUE
    ELSE IF Len(b) = 0 THEN FALSE
    ELSE IF Head(a) = Head(b) THEN IsSubsequence(Tail(a), Tail(b))
    ELSE IsSubsequence(a, Tail(b))

\* the body lines of a returned string, each with the path of its node
LinesWithPaths(text) ==
    LET lines == BodyLines(text)
        body == ParsedBody(text)
    IN  [k \in 1..Len(lines) |-> [line |-> lines[k], path |-> PathOfLine(body, k)]]

DeepestDepth(root) ==
    LET nodes == Preorder(root)
        depths == {nodes[k].node.depth : k \in 1..Len(nodes)} \cup {0}
    IN  CHOOSE d \in depths : \A e \in depths : e <= d

C29_RaisingDepthKeepsLines ==
    (DoneEnhanced /\ IsSome(options.maxDepth)) =>
      LET N == Get(options.maxDepth)
          deeper == formatSubTree(items, dirPath, [options EXCEPT !.maxDepth = Some(N + 1)])
          unlimitedOptions == [options EXCEPT !.maxDepth = None]
          unlimited == formatSubTree(items, dirPath, unlimitedOptions)
          limitedStats == calculateStats(tree, options, InitialStats)
          unlimitedStats == calculateStats(tree, unlimitedOptions, InitialStats)
      IN  /\ options.showSize # Some(TRUE) =>
                IsSubsequence(LinesWithPaths(result), LinesWithPaths(deeper))
          /\ N >= DeepestDepth(tree) =>
                /\ BodyLines(result) = BodyLines(unlimited)
                /\ limitedStats.totalFiles = unlimitedStats.totalFiles
                /\ limitedStats.totalDirs = unlimitedStats.totalDirs
                /\ limitedStats.totalSize = unlimitedStats.totalSize
                /\ result = (IF HasSummary(unlimited)
                             THEN unlimited \o ", (depth limited to " \o NumToString(N) \o ")"
                             ELSE unlimited)

\* maxDepth 1 renders several lines and hides lines that maxDepth 2 shows
C29_Witness ==
    /\ DoneEnhanced
    /\ options.maxDepth = Some(1)
    /\ options.showSize # Some(TRUE)
    /\ Len(BodyLines(result)) >= 2
    /\ Len(BodyLines(formatSubTree(items, dirPath, [options EXCEPT !.maxDepth = Some(2)])))
         > Len(BodyLines(result))

\* the second case: maxDepth 2 reaches the deepest node of a tree with a
\* summary
C29_ReachesDeepest ==
    /\ DoneEnhanced
    /\ options.maxDepth = Some(2)
    /\ DeepestDepth(tree) = 2
    /\ HasSummary(result)
    /\ items = <<Tree("src"), Blob("src/index.ts", Some(1024)), Blob("src/utils.ts", Some(2048))>>

(***************************************************************************)
(* C30: in HTTP mode start-up always ends, whatever ports are occupied, in *)
(* one of two outcomes: the server listens on a port p >= initialPort,     *)
(* reached by trying initialPort, initialPort + 1, ... in increasing order *)
(* without skipping or repeating one, or the process exits with status 1.  *)
(* An error other than EADDRINUSE leads to the exit with no further port   *)
(* tried, and after a successful listen no further port is tried.          *)
(***************************************************************************)
StartUpOver == pc \in {"listening", "exited"}

ConsecutivePorts == \A k \in 1..Len(tried) : tried[k] = initialPort + k - 1

StartUpOutcome ==
    call = "main" =>
      /\ ConsecutivePorts
      /\ pc = "listening" =>
           /\ exitStatus = None
           /\ tried # <<>>
           /\ port = tried[Len(tried)]
           /\ initialPort <= port
      /\ pc = "exited" <=> exitStatus = Some(1)

\* a step of the error listener for an error that is not EADDRINUSE exits
\* without another listen, and so does no step after a successful listen
NoFurtherPort ==
    call = "main" =>
      /\ (pc = "binding" /\ pc' # "listening" /\ lastError' # "EADDRINUSE") =>
            pc' = "exited" /\ tried' = tried
      /\ pc = "listening" => tried' = tried

C30_StartUpTerminates == <>StartUpOver /\ []StartUpOutcome /\ [][NoFurtherPort]_vars

\* the server listens after two ports were in use
C30_Witness ==
    /\ call = "main"
    /\ pc = "listening"
    /\ lastError = "EADDRINUSE"
    /\ tried = <<initialPort, initialPort + 1, initialPort + 2>>
    /\ actualPort = initialPort + 2

====
